---------------------------- MODULE Spec2Model ----------------------------
(***************************************************************************)
(* The platform event poller of one MCTP endpoint                          *)
(* (EventHandlerInterface, src/requester/mctp_endpoint_discovery.hpp) with *)
(* the request/response correlator it talks to: the instance-id allocator  *)
(* (requester) and the request handler (handler).                          *)
(*                                                                         *)
(* The poller's methods are operators from a state record to a state       *)
(* record, written statement by statement after the source; the actions    *)
(* apply them to the current state.  Every field of the record is a        *)
(* variable of the module with the same name.                              *)
(***************************************************************************)
EXTENDS Naturals, Integers, Sequences, FiniteSets, TLC

(***************************************************************************)
(* Bounds of the model                                                     *)
(***************************************************************************)
\* the terminus reports the events 1..MaxEventId; it answers a request for
\* one of them with another event id (OtherEventId) as well
MaxEventId == 1
\* instance ids of the EID: 0..MaxInstanceId-1 (the program has 32)
MaxInstanceId == 2
\* the terminus returns next_data_transfer_handle in 0..MaxHandle
MaxHandle == 1
\* responses that would grow the receive buffer beyond MaxBuf are not sent
MaxBuf == 2
\* the program's MAX_QUEUE_SIZE, scaled down: enqueueCriticalEvent refuses an
\* event once the queue holds more than MAX_QUEUE_SIZE
MAX_QUEUE_SIZE == 1

(***************************************************************************)
(* Program constants                                                       *)
(***************************************************************************)
PLDM_GET_NEXTPART == 0
PLDM_GET_FIRSTPART == 1
PLDM_ACKNOWLEDGEMENT_ONLY == 2
PLDM_START == 1
PLDM_MIDDLE == 2
PLDM_END == 4
PLDM_START_AND_END == 5
EVENT_ID_NULL == 0
EVENT_ID_TERMINATE == 65535

OtherEventId == MaxEventId + 1
EventIds == (0..OtherEventId) \cup {EVENT_ID_TERMINATE}
\* the event ids enqueueCriticalEvent is called with
CritEventIds == {1, EVENT_ID_TERMINATE}
InstanceIds == 0..(MaxInstanceId - 1)
Handles == 0..MaxHandle
\* the bytes of event data; every part carries one byte
Bytes == {1, 2}
EventClasses == {5, 6}
\* the classes a handler gets registered for
HandledClasses == {5}

RECURSIVE SeqsUpTo(_, _)
SeqsUpTo(S, n) ==
    IF n = 0 THEN {<<>>}
    ELSE LET shorter == SeqsUpTo(S, n - 1)
         IN  shorter \cup {Append(q, x) : q \in shorter, x \in S}

Payloads == {<<b>> : b \in Bytes}

(***************************************************************************)
(* crc32: the reflected CRC-32 (polynomial 0xEDB88320, initial value and   *)
(* final xor 0xFFFFFFFF).  A 32-bit word is the pair <<high 16 bits, low   *)
(* 16 bits>>.                                                              *)
(***************************************************************************)
RECURSIVE Xor(_, _)
Xor(a, b) ==
    IF a = 0 THEN b
    ELSE IF b = 0 THEN a
    ELSE ((a + b) % 2) + 2 * Xor(a \div 2, b \div 2)

Xor32(x, y) == <<Xor(x[1], y[1]), Xor(x[2], y[2])>>

Shr1(x) == <<x[1] \div 2, (x[2] \div 2) + 32768 * (x[1] % 2)>>

CrcPoly == <<60856, 33568>>

CrcOnes == <<65535, 65535>>

RECURSIVE CrcBits(_, _)
CrcBits(c, n) ==
    IF n = 0 THEN c
    ELSE CrcBits(IF c[2] % 2 = 1 THEN Xor32(Shr1(c), CrcPoly) ELSE Shr1(c), n - 1)

RECURSIVE CrcBytes(_, _)
CrcBytes(c, bytes) ==
    IF bytes = <<>> THEN c
    ELSE CrcBytes(CrcBits(Xor32(c, <<0, Head(bytes)>>), 8), Tail(bytes))

\* the CRC-32 of every byte sequence the model forms, computed once
Crc32Table ==
    [bytes \in SeqsUpTo(Bytes, MaxBuf + 1) |->
        Xor32(CrcBytes(CrcOnes, bytes), CrcOnes)]

crc32(bytes) == Crc32Table[bytes]

VARIABLES
    isProcessPolling,    \* an event transfer is in progress
    isPolling,           \* a request is outstanding
    responseReceived,
    isCritical,
    reqData,             \* [operationFlag, dataTransferHandle, eventIdToAck]
    recvData,            \* [eventClass, totalSize, data]
    critEventQueue,
    instanceId,
    eventHndls,          \* the event classes with a registered handler
    pollEventReqTimer,   \* periodic timer: enabled or not
    pollReqTimeoutTimer, \* one-shot timer: armed or not
    allocated,           \* requester: the instance ids of the EID in use
    registered,          \* handler: the instance ids with a request registered
    running,             \* FALSE once the process has aborted
    rxConcat,            \* history: the payloads of the current event, in
                         \* the order the parts were received
    lastOp               \* the last operation: [op, path, handler]

\* the responder (Handler, src/libpldmresponder/platform.cpp)
VARIABLES
    eventHandlers,       \* event class -> the handlers registered for it, in
                         \* order; a handler is the code it returns
    oemPlatformHandler,  \* whether an OEM platform handler is configured
    request,             \* the request being answered: <<>> or <<req>>
    response,            \* the response returned: <<>> or <<resp>>
    invoked,             \* the handlers called for the request, in order
    watchDogReset        \* whether the request reset the watchdog timer

\* the command handlers and the event class handlers of Handler
VARIABLES
    pdrCreated,          \* whether getPDR has built the repository
    cmdRequest,          \* the command being answered: <<>> or
                         \* <<[command, instanceId]>>
    cmdResponse,         \* the response returned: <<>> or <<resp>>
    hostPDRHandler,      \* whether a host PDR handler is configured
    pdrRepo,             \* the records of the repository, in link order
    tlPDRInfo,           \* hostPDRHandler->tlPDRInfo: terminus handle -> tid
    isHostPdrModified,   \* hostPDRHandler->isHostPdrModified
    sensorMap,           \* hostPDRHandler's sensor map: <<tid, sensorId>> ->
                         \* [entityInfo, compositeSensorStates]
    platformEvent,       \* the event handed to a class handler: <<>> or <<ev>>
    eventRc,             \* what the class handler returned: <<>> or <<rc>>
    fetchPDR,            \* the calls of hostPDRHandler->fetchPDR made for
                         \* the event: the record handles passed, per call
    stateSensorEvents,   \* the calls of hostPDRHandler->handleStateSensorEvent
                         \* made for the event
    signals              \* the D-Bus signals emitted for the event

\* the BIOS attribute registry (namespace bios_parser)
VARIABLES
    BIOSStrings,         \* the string table, in order of insertion
    BIOSAttrLookup,      \* attribute name -> the D-Bus mapping or "nullopt"
    valueMap,            \* kind of attribute -> (attribute name -> values)
    configDir,           \* the directory of the last setupConfig: <<>>, <<dir>>
    setupRc              \* what the last setupConfig returned: <<>> or <<rc>>

\* a scan of the repository (isOemStateSensor, isOemStateEffecter)
VARIABLES
    scan                 \* [pc, pdrType, id, count, repo, pdrRecord, visited,
                         \* result]

\* the variables of the poller and the correlator (all but lastOp)
pollerVars == <<isProcessPolling, isPolling, responseReceived, isCritical,
                reqData, recvData, critEventQueue, instanceId, eventHndls,
                pollEventReqTimer, pollReqTimeoutTimer, allocated, registered,
                running, rxConcat>>

responderVars == <<eventHandlers, oemPlatformHandler, request, response,
                   invoked, watchDogReset>>

commandVars == <<pdrCreated, cmdRequest, cmdResponse>>

hostPdrVars == <<hostPDRHandler, pdrRepo, tlPDRInfo, isHostPdrModified,
                 sensorMap>>

eventVars == <<platformEvent, eventRc, fetchPDR, stateSensorEvents, signals>>

biosVars == <<BIOSStrings, BIOSAttrLookup, valueMap, configDir, setupRc>>

platformVars == <<commandVars, hostPdrVars, eventVars, biosVars, scan>>

vars == <<isProcessPolling, isPolling, responseReceived, isCritical, reqData,
          recvData, critEventQueue, instanceId, eventHndls, pollEventReqTimer,
          pollReqTimeoutTimer, allocated, registered, running, rxConcat,
          lastOp, responderVars, platformVars>>

\* what one operation did: the path it took through the code and whether it
\* invoked an event handler
NoTrace == [path |-> "", handler |-> FALSE]

\* the current state as a record
Cur ==
    [isProcessPolling |-> isProcessPolling, isPolling |-> isPolling,
     responseReceived |-> responseReceived, isCritical |-> isCritical,
     reqData |-> reqData, recvData |-> recvData,
     critEventQueue |-> critEventQueue, instanceId |-> instanceId,
     eventHndls |-> eventHndls,
     pollEventReqTimer |-> pollEventReqTimer,
     pollReqTimeoutTimer |-> pollReqTimeoutTimer, allocated |-> allocated,
     registered |-> registered, running |-> running, rxConcat |-> rxConcat,
     trace |-> NoTrace]

\* the next state is s; the operation was op
Commit(op, s) ==
    /\ isProcessPolling' = s.isProcessPolling
    /\ isPolling' = s.isPolling
    /\ responseReceived' = s.responseReceived
    /\ isCritical' = s.isCritical
    /\ reqData' = s.reqData
    /\ recvData' = s.recvData
    /\ critEventQueue' = s.critEventQueue
    /\ instanceId' = s.instanceId
    /\ eventHndls' = s.eventHndls
    /\ pollEventReqTimer' = s.pollEventReqTimer
    /\ pollReqTimeoutTimer' = s.pollReqTimeoutTimer
    /\ allocated' = s.allocated
    /\ registered' = s.registered
    /\ running' = s.running
    /\ rxConcat' = s.rxConcat
    /\ lastOp' = [op |-> op, path |-> s.trace.path,
                  handler |-> s.trace.handler]
    /\ UNCHANGED <<responderVars, platformVars>>

Path(s, p) == [s EXCEPT !.trace.path = p]

ReqPollInfo(flag, handle, eventId) ==
    [operationFlag |-> flag, dataTransferHandle |-> handle,
     eventIdToAck |-> eventId]

\* memset(&reqData, 0, sizeof(struct ReqPollInfo))
ZeroReq == ReqPollInfo(0, 0, 0)

EmptyRecv == [eventClass |-> 0, totalSize |-> 0, data |-> <<>>]

(***************************************************************************)
(* The correlator: instance ids (requester) and registered requests        *)
(* (handler).                                                              *)
(***************************************************************************)
markFree(s, iid) == [s EXCEPT !.allocated = @ \ {iid}]

FreeIds(s) == InstanceIds \ s.allocated

\* getInstanceId marks the id it returns as in use
getInstanceId(s, iid) == [s EXCEPT !.allocated = @ \cup {iid}]

\* registerRequest refuses a second request on a live (eid, instance id)
DuplicateRequest(s, iid) == iid \in s.registered

registerRequest(s, iid) == [s EXCEPT !.registered = @ \cup {iid}]

\* the response to (eid, iid) was delivered, or the request expired: the
\* one-shot callback is removed and the id released
retireRequest(s, iid) ==
    [s EXCEPT !.registered = @ \ {iid}, !.allocated = @ \ {iid}]

(***************************************************************************)
(* EventHandlerInterface                                                   *)
(***************************************************************************)
\* normalEventCb that looks at isProcessPolling only
normalEventCbNoCritical(s) ==
    IF s.isProcessPolling
    THEN Path(s, "defer")
    ELSE Path([s EXCEPT !.reqData = ReqPollInfo(PLDM_GET_FIRSTPART, 0, 0),
                        !.pollEventReqTimer = TRUE], "arm")

normalEventCb(s) ==
    IF s.isProcessPolling \/ s.isCritical
    THEN Path(s, "defer")
    ELSE Path([s EXCEPT !.reqData = ReqPollInfo(PLDM_GET_FIRSTPART, 0, 0),
                        !.pollEventReqTimer = TRUE], "arm")

criticalEventCb(s) ==
    IF s.isProcessPolling
    THEN Path(s, "defer")
    ELSE IF s.critEventQueue = <<>>
    THEN Path([s EXCEPT !.isCritical = FALSE], "empty")
    ELSE LET eventId == Head(s.critEventQueue)
         IN  Path([s EXCEPT !.isCritical = TRUE,
                            !.critEventQueue = Tail(@),
                            !.reqData = ReqPollInfo(PLDM_GET_FIRSTPART,
                                                    eventId, eventId),
                            !.pollEventReqTimer = TRUE], "arm")

\* the search of the queue finding nothing
InQueueNever(q, item) == FALSE

InQueue(q, item) == \E i \in 1..Len(q) : q[i] = item

\* enqueueCriticalEvent refusing at size() >= MAX_QUEUE_SIZE
enqueueCriticalEventAtCapacity(s, item) ==
    IF Len(s.critEventQueue) >= MAX_QUEUE_SIZE
    THEN Path(s, "full")
    ELSE IF InQueue(s.critEventQueue, item)
    THEN Path(s, "duplicate")
    ELSE Path([s EXCEPT !.critEventQueue = Append(@, item)], "ok")

\* the paths "full", "duplicate" and "ok" return -1, -2 and 0
enqueueCriticalEvent(s, item) ==
    IF Len(s.critEventQueue) > MAX_QUEUE_SIZE
    THEN Path(s, "full")
    ELSE IF InQueue(s.critEventQueue, item)
    THEN Path(s, "duplicate")
    ELSE Path([s EXCEPT !.critEventQueue = Append(@, item)], "ok")

\* eventHndls.emplace(eventClass, function)
registerEventHandler(s, eventClass) ==
    [s EXCEPT !.eventHndls = @ \cup {eventClass}]

\* reset() that leaves isPolling as it is
resetKeepsPolling(s) ==
    [markFree(s, s.instanceId) EXCEPT
        !.isProcessPolling = FALSE,
        !.responseReceived = FALSE,
        !.reqData = ZeroReq,
        !.recvData = EmptyRecv,
        !.pollEventReqTimer = FALSE,
        !.rxConcat = <<>>]

\* reset() that leaves the poll-request timer enabled
resetLeavesTimer(s) ==
    [markFree(s, s.instanceId) EXCEPT
        !.isProcessPolling = FALSE,
        !.isPolling = FALSE,
        !.responseReceived = FALSE,
        !.reqData = ZeroReq,
        !.recvData = EmptyRecv,
        !.rxConcat = <<>>]

\* reset() that also empties the critical queue and clears isCritical
resetDropsCritical(s) ==
    [markFree(s, s.instanceId) EXCEPT
        !.isProcessPolling = FALSE,
        !.isPolling = FALSE,
        !.responseReceived = FALSE,
        !.reqData = ZeroReq,
        !.recvData = EmptyRecv,
        !.pollEventReqTimer = FALSE,
        !.critEventQueue = <<>>,
        !.isCritical = FALSE,
        !.rxConcat = <<>>]

reset(s) ==
    [markFree(s, s.instanceId) EXCEPT
        !.isProcessPolling = FALSE,
        !.isPolling = FALSE,
        !.responseReceived = FALSE,
        !.reqData = ZeroReq,
        !.recvData = EmptyRecv,
        !.pollEventReqTimer = FALSE,
        !.rxConcat = <<>>]

\* pollReqTimeoutHdl that does not look at responseReceived
pollReqTimeoutHdlAlways(s) == Path(reset(s), "timeout")

pollReqTimeoutHdl(s) ==
    IF ~s.responseReceived THEN Path(reset(s), "timeout") ELSE Path(s, "late")

\* the paths of an operation on which reset() ran
ResetPaths == {"timeout", "decode", "reserved", "mismatch"}

(***************************************************************************)
(* processResponseMsg.  A response is                                      *)
(* [decodeOk, eventId, nextDataTransferHandle, transferFlag, eventClass,   *)
(*  eventData, checksum]; retEventDataSize is Len(eventData).              *)
(*                                                                         *)
(* std::vector::insert at a position beyond end() is undefined: ub is the  *)
(* outcome the build produces there: "abort" (the process dies) or "lost"  *)
(* (it goes on, the buffer keeps the bytes it had).                        *)
(***************************************************************************)
\* vector::insert(begin() + off, payload) for off <= size()
Insert(data, off, payload) ==
    SubSeq(data, 1, off) \o payload \o SubSeq(data, off + 1, Len(data))

InsertDefined(s, off) == off <= Len(s.recvData.data)

\* recvData.data.insert(recvData.data.begin() + off, ...);
\* recvData.totalSize += retEventDataSize;
InsertPart(s, off, payload, ub) ==
    IF InsertDefined(s, off)
    THEN [s EXCEPT !.recvData.data = Insert(@, off, payload),
                   !.recvData.totalSize = @ + Len(payload)]
    ELSE IF ub = "abort"
    THEN [s EXCEPT !.running = FALSE]
    ELSE [s EXCEPT !.recvData.totalSize = @ + Len(payload)]

\* (flag == PLDM_END) && (checksum != retEventDataIntegrityChecksum)
ChecksumRejects(flag, checksum, retChecksum) ==
    flag = PLDM_END /\ checksum # retChecksum

\* eventHndls.find(retEventClass) and the call of the handler found, with
\* (retTid, retEventClass, retEventId, recvData.data)
InvokeHandler(s, resp) ==
    IF resp.eventClass \in s.eventHndls
    THEN [s EXCEPT !.trace.handler = TRUE]
    ELSE s

\* the START branch clearing isProcessPolling
StartPartEndsTransfer(s, resp, ub) ==
    LET s1 == InsertPart(s, 0, resp.eventData, ub)
    IN  Path([s1 EXCEPT !.reqData = ReqPollInfo(PLDM_GET_NEXTPART,
                                      resp.nextDataTransferHandle,
                                      resp.eventId),
                        !.isProcessPolling = FALSE,
                        !.rxConcat = resp.eventData], "start")

StartPart(s, resp, ub) ==
    LET s1 == InsertPart(s, 0, resp.eventData, ub)
    IN  Path([s1 EXCEPT !.reqData = ReqPollInfo(PLDM_GET_NEXTPART,
                                      resp.nextDataTransferHandle,
                                      resp.eventId),
                        !.rxConcat = resp.eventData], "start")

MiddlePart(s, resp, ub) ==
    LET s1 == InsertPart(s, s.reqData.dataTransferHandle, resp.eventData, ub)
    IN  IF ~s1.running THEN Path(s1, "abort")
        ELSE Path([s1 EXCEPT !.reqData = ReqPollInfo(PLDM_GET_NEXTPART,
                                      resp.nextDataTransferHandle,
                                      resp.eventId),
                             !.rxConcat = @ \o resp.eventData], "middle")

EndPart(s, resp, ub) ==
    LET s1 == InsertPart(s, s.reqData.dataTransferHandle, resp.eventData, ub)
        s2 == [s1 EXCEPT !.rxConcat =
                            IF resp.transferFlag = PLDM_END
                            THEN @ \o resp.eventData ELSE resp.eventData]
        checksum == crc32(s2.recvData.data)
        s3 == IF ChecksumRejects(resp.transferFlag, checksum, resp.checksum)
              THEN Path(s2, "checksum")
              ELSE Path(InvokeHandler(s2, resp),
                        IF resp.transferFlag = PLDM_END
                        THEN "end" ELSE "startAndEnd")
    IN  IF ~s1.running THEN Path(s1, "abort")
        ELSE [s3 EXCEPT !.reqData = ReqPollInfo(PLDM_ACKNOWLEDGEMENT_ONLY,
                                                0, resp.eventId)]

\* the check of the event id without 0xffff
ReservedEventIdNullOnly(eventId) == eventId = EVENT_ID_NULL

\* retEventId == 0x0 || retEventId == 0xffff
ReservedEventId(eventId) ==
    eventId = EVENT_ID_NULL \/ eventId = EVENT_ID_TERMINATE

\* (reqData.eventIdToAck != 0x0) && (retEventId != reqData.eventIdToAck)
EventIdMismatch(s, eventId) ==
    s.reqData.eventIdToAck # 0 /\ eventId # s.reqData.eventIdToAck

\* the response decoded: lines 232-321
processDecoded(s1, resp, ub) ==
    IF ReservedEventId(resp.eventId) THEN Path(reset(s1), "reserved")
        ELSE IF EventIdMismatch(s1, resp.eventId)
        THEN Path(reset(s1), "mismatch")
        ELSE IF resp.transferFlag = PLDM_START THEN StartPart(s1, resp, ub)
        ELSE IF resp.transferFlag = PLDM_MIDDLE THEN MiddlePart(s1, resp, ub)
        ELSE IF resp.transferFlag = PLDM_END
                \/ resp.transferFlag = PLDM_START_AND_END
        THEN EndPart(s1, resp, ub)
        ELSE Path(s1, "other")

processResponseMsg(s, resp, ub) ==
    LET s1 == [s EXCEPT !.responseReceived = TRUE,
                        !.isPolling = FALSE,
                        !.pollReqTimeoutTimer = FALSE]
    IN  IF ~resp.decodeOk THEN Path(reset(s1), "decode")
        ELSE processDecoded(s1, resp, ub)

(***************************************************************************)
(* pollEventReqCb.  iid is the id getInstanceId returns and outcome what   *)
(* encoding and transmitting the request come to: "ok", "encodeFailed" or  *)
(* "sendFailed".  On the path "sent" the request sent carries reqData and  *)
(* instanceId.                                                             *)
(***************************************************************************)
SendRequest(s) ==
    [registerRequest(s, s.instanceId) EXCEPT
        !.isProcessPolling = TRUE,
        !.isPolling = TRUE,
        !.responseReceived = FALSE,
        !.pollReqTimeoutTimer = TRUE]

\* pollEventReqCb that keeps the instance id when sending fails
pollEventReqCbKeepsId(s, iid, outcome) ==
    IF s.isPolling THEN Path(s, "isPolling")
    ELSE IF s.reqData.eventIdToAck = EVENT_ID_TERMINATE
    THEN Path(s, "terminate")
    ELSE IF FreeIds(s) = {} THEN Path(s, "noFreeSlot")
    ELSE LET s1 == [getInstanceId(s, iid) EXCEPT !.instanceId = iid]
         IN  IF outcome = "encodeFailed" THEN Path(s1, "encodeFailed")
             ELSE IF DuplicateRequest(s1, iid) \/ outcome = "sendFailed"
             THEN Path(s1, "sendFailed")
             ELSE Path(SendRequest(s1), "sent")

\* pollEventReqCb that sends with the instance id it has when none is free
pollEventReqCbSendsStaleId(s, iid, outcome) ==
    IF s.isPolling THEN Path(s, "isPolling")
    ELSE IF s.reqData.eventIdToAck = EVENT_ID_TERMINATE
    THEN Path(s, "terminate")
    ELSE IF FreeIds(s) = {} THEN Path(SendRequest(s), "noFreeSlot")
    ELSE LET s1 == [getInstanceId(s, iid) EXCEPT !.instanceId = iid]
         IN  IF outcome = "encodeFailed" THEN Path(s1, "encodeFailed")
             ELSE IF DuplicateRequest(s1, iid) \/ outcome = "sendFailed"
             THEN Path(markFree(s1, iid), "sendFailed")
             ELSE Path(SendRequest(s1), "sent")

pollEventReqCb(s, iid, outcome) ==
    IF s.isPolling THEN Path(s, "isPolling")
    ELSE IF s.reqData.eventIdToAck = EVENT_ID_TERMINATE
    THEN Path(s, "terminate")
    ELSE IF FreeIds(s) = {} THEN Path(s, "noFreeSlot")
    ELSE LET s1 == [getInstanceId(s, iid) EXCEPT !.instanceId = iid]
         IN  IF outcome = "encodeFailed" THEN Path(s1, "encodeFailed")
             ELSE IF DuplicateRequest(s1, iid) \/ outcome = "sendFailed"
             THEN Path(markFree(s1, iid), "sendFailed")
             ELSE Path(SendRequest(s1), "sent")

(***************************************************************************)
(* The terminus: the responses it may give.  The checksum of an END part   *)
(* is the CRC-32 of the event data it has sent, or a corrupted one.        *)
(***************************************************************************)
BadChecksum == <<1, 1>>

Response(e, h, f, c, d, k) ==
    [decodeOk |-> TRUE, eventId |-> e, nextDataTransferHandle |-> h,
     transferFlag |-> f, eventClass |-> c, eventData |-> d, checksum |-> k]

DecodeFailure ==
    [Response(0, 0, 0, 0, <<>>, BadChecksum) EXCEPT !.decodeOk = FALSE]

\* the fields processResponseMsg does not read for a transfer flag have one
\* value here
Responses(s) ==
    {DecodeFailure}
    \cup {Response(e, 0, PLDM_START_AND_END, 5, <<1>>, BadChecksum) :
            e \in {EVENT_ID_NULL, EVENT_ID_TERMINATE}}
    \cup {Response(OtherEventId, 0, PLDM_START_AND_END, 5, <<1>>, BadChecksum) :
            x \in {y \in {0} : EventIdMismatch(s, OtherEventId)}}
    \cup {Response(e, h, f, 5, d, BadChecksum) :
            e \in 1..MaxEventId, h \in Handles,
            f \in {PLDM_START, PLDM_MIDDLE}, d \in Payloads}
    \cup {Response(e, 0, PLDM_START_AND_END, c, d, BadChecksum) :
            e \in 1..MaxEventId, c \in EventClasses, d \in Payloads}
    \cup UNION {{Response(e, 0, PLDM_END, c, d, k) :
                   k \in {crc32(s.rxConcat \o d), BadChecksum}} :
                 e \in 1..MaxEventId, c \in EventClasses, d \in Payloads}
    \cup {Response(e, 0, 0, 5, <<>>, BadChecksum) : e \in 1..MaxEventId}

UBOutcomes == {"abort", "lost"}

\* whether processing resp in s reaches an insert beyond the buffer's end
HitsUB(s, resp) ==
    /\ resp.decodeOk
    /\ ~ReservedEventId(resp.eventId)
    /\ ~EventIdMismatch(s, resp.eventId)
    /\ resp.transferFlag \in {PLDM_MIDDLE, PLDM_END, PLDM_START_AND_END}
    /\ ~InsertDefined(s, s.reqData.dataTransferHandle)

WithinBounds(s) ==
    /\ Len(s.recvData.data) <= MaxBuf
    /\ s.recvData.totalSize <= MaxBuf
    /\ Len(s.rxConcat) <= MaxBuf

(***************************************************************************)
(* Actions                                                                 *)
(***************************************************************************)
\* the poller constructed; no operation reads instanceId before
\* pollEventReqCb has set it
PollerInit ==
    /\ isProcessPolling = FALSE
    /\ isPolling = FALSE
    /\ responseReceived = FALSE
    /\ isCritical = FALSE
    /\ reqData = ZeroReq
    /\ recvData = EmptyRecv
    /\ critEventQueue = <<>>
    /\ instanceId = 0
    /\ eventHndls = {}
    /\ pollEventReqTimer = FALSE
    /\ pollReqTimeoutTimer = FALSE
    /\ allocated = {}
    /\ registered = {}
    /\ running = TRUE
    /\ rxConcat = <<>>
    /\ lastOp = [op |-> "", path |-> "", handler |-> FALSE]

\* a responder without handlers that has answered no request
ResponderIdle ==
    /\ eventHandlers = <<>>
    /\ oemPlatformHandler = FALSE
    /\ request = <<>>
    /\ response = <<>>
    /\ invoked = <<>>
    /\ watchDogReset = FALSE

\* no command answered, the repository not built
CommandsIdle ==
    /\ pdrCreated = FALSE
    /\ cmdRequest = <<>>
    /\ cmdResponse = <<>>

\* no host PDR handler, an empty repository
HostPdrIdle ==
    /\ hostPDRHandler = FALSE
    /\ pdrRepo = <<>>
    /\ tlPDRInfo = <<>>
    /\ isHostPdrModified = FALSE
    /\ sensorMap = <<>>

\* no event handed to a class handler
EventsIdle ==
    /\ platformEvent = <<>>
    /\ eventRc = <<>>
    /\ fetchPDR = <<>>
    /\ stateSensorEvents = <<>>
    /\ signals = <<>>

\* Strings BIOSStrings; AttrLookup BIOSAttrLookup; AttrValuesMap valueMap
\* (of bios_enum::internal, bios_string::internal and bios_integer): empty
\* until setupConfig runs
BiosIdle ==
    /\ BIOSStrings = <<>>
    /\ BIOSAttrLookup = <<>>
    /\ valueMap = [k \in {"enum", "string", "integer"} |-> <<>>]
    /\ configDir = <<>>
    /\ setupRc = <<>>

\* no scan of the repository under way
NoScan ==
    [pc |-> "idle", pdrType |-> 0, id |-> 0, count |-> 0, repo |-> <<>>,
     pdrRecord |-> 0, visited |-> <<>>, result |-> <<>>]

ScanIdle == scan = NoScan

Init ==
    /\ PollerInit
    /\ ResponderIdle
    /\ CommandsIdle
    /\ HostPdrIdle
    /\ EventsIdle
    /\ BiosIdle
    /\ ScanIdle

\* the owner registers its handlers before the event loop dispatches
SetUp == eventHndls = HandledClasses

NormalEventTimer ==
    /\ running /\ SetUp
    /\ Commit("normalEventCb", normalEventCb(Cur))

CriticalEventTimer ==
    /\ running /\ SetUp
    /\ Commit("criticalEventCb", criticalEventCb(Cur))

EnqueueCriticalEvent ==
    /\ running /\ SetUp
    /\ \E item \in CritEventIds :
          Commit("enqueueCriticalEvent", enqueueCriticalEvent(Cur, item))

RegisterEventHandler ==
    /\ running
    /\ \E c \in HandledClasses \ eventHndls :
          Commit("registerEventHandler", registerEventHandler(Cur, c))

PollEventReqTimer ==
    /\ running /\ pollEventReqTimer
    /\ \E iid \in IF FreeIds(Cur) = {} THEN {0} ELSE FreeIds(Cur),
          outcome \in {"ok", "encodeFailed", "sendFailed"} :
          Commit("pollEventReqCb", pollEventReqCb(Cur, iid, outcome))

\* the one-shot timeout timer expires
PollReqTimeoutTimer ==
    /\ running /\ pollReqTimeoutTimer
    /\ Commit("pollReqTimeoutHdl",
              pollReqTimeoutHdl([Cur EXCEPT !.pollReqTimeoutTimer = FALSE]))

\* the handler delivers the response to a registered request to its callback,
\* removes the request and releases its instance id
HandleResponse ==
    /\ running
    /\ \E iid \in registered : \E resp \in Responses(Cur) :
        \E ub \in IF HitsUB(Cur, resp) THEN UBOutcomes ELSE {"lost"} :
          LET s == processResponseMsg(Cur, resp, ub)
          IN  /\ WithinBounds(s)
              /\ Commit("processResponseMsg",
                        IF s.running THEN retireRequest(s, iid) ELSE s)

\* the handler gives up a registered request: no response came in time
RequestExpired ==
    /\ running
    /\ \E iid \in registered : Commit("requestExpired", retireRequest(Cur, iid))

Next ==
    \/ NormalEventTimer
    \/ CriticalEventTimer
    \/ EnqueueCriticalEvent
    \/ RegisterEventHandler
    \/ PollEventReqTimer
    \/ PollReqTimeoutTimer
    \/ HandleResponse
    \/ RequestExpired

Spec == Init /\ [][Next]_vars

\* The owner registers its handlers and the timers keep firing: normEventTimer and critEventTimer are periodic,
\* pollEventReqTimer is periodic while enabled, and the one-shot timeout
\* timer expires once armed;
\* and a request that can be encoded and sent infinitely often is sent:
\* encoding and transmission do not fail for ever
PollRequestSent == PollEventReqTimer /\ lastOp'.path = "sent"

SpecFair ==
    /\ Init /\ [][Next]_vars
    /\ WF_vars(RegisterEventHandler)
    /\ WF_vars(NormalEventTimer)
    /\ WF_vars(CriticalEventTimer)
    /\ WF_vars(PollEventReqTimer)
    /\ WF_vars(PollReqTimeoutTimer)
    /\ SF_vars(PollRequestSent)

(***************************************************************************)
(* The responder: Handler::platformEventMessage                            *)
(* (src/libpldmresponder/platform.cpp).  A request is                      *)
(* [decodeRc, eventClass, instanceId]: what                                *)
(* decode_platform_event_message_req returns and yields, and the instance  *)
(* id of the request header.  A response is [ccOnly, cc, instanceId].      *)
(***************************************************************************)
\* the longest handler list of an event class
MaxHandlers == 3

PLDM_SUCCESS == 0
PLDM_ERROR == 1
PLDM_ERROR_INVALID_DATA == 2
PLDM_ERROR_INVALID_LENGTH == 3
PLDM_SENSOR_EVENT == 0
PLDM_MESSAGE_POLL_EVENT == 5
PLDM_HEARTBEAT_TIMER_ELAPSED_EVENT == 6

\* the codes a handler returns
HandlerCodes == {PLDM_SUCCESS, PLDM_ERROR, PLDM_ERROR_INVALID_DATA}

\* the handler lists a class may have
HandlerLists == SeqsUpTo(HandlerCodes, MaxHandlers)

\* the classes of the requests received; handlers are registered for
\* PLDM_SENSOR_EVENT only
RequestClasses ==
    {PLDM_SENSOR_EVENT, PLDM_MESSAGE_POLL_EVENT,
     PLDM_HEARTBEAT_TIMER_ELAPSED_EVENT}

Requests ==
    [decodeRc : {PLDM_SUCCESS, PLDM_ERROR_INVALID_LENGTH},
     eventClass : RequestClasses, instanceId : {0, 1}]

\* CmdHandler::ccOnlyResponse(request, cc)
ccOnlyResponse(req, cc) ==
    [ccOnly |-> TRUE, cc |-> cc, instanceId |-> req.instanceId]

\* encode_platform_event_message_resp(instance_id, rc, PLDM_EVENT_NO_LOGGING,
\* responsePtr) on the response buffer just allocated
EncodedResponse(req, rc) ==
    [ccOnly |-> FALSE, cc |-> rc, instanceId |-> req.instanceId]

\* what a call leaves: the response and the handlers invoked
Outcome(resp, called, wd) ==
    [response |-> resp, invoked |-> called, watchDogReset |-> wd]

\* the loop over the handlers that goes on after a failure
RECURSIVE RunHandlersToEnd(_, _, _, _)
RunHandlersToEnd(req, handlers, i, called) ==
    IF i > Len(handlers)
    THEN Outcome(EncodedResponse(req, PLDM_SUCCESS), called, FALSE)
    ELSE RunHandlersToEnd(req, handlers, i + 1, Append(called, i))

\* for (const auto& handler : handlers), from the i-th handler on
RECURSIVE RunHandlers(_, _, _, _)
RunHandlers(req, handlers, i, called) ==
    IF i > Len(handlers)
    THEN Outcome(EncodedResponse(req, PLDM_SUCCESS), called, FALSE)
    ELSE LET rc == handlers[i]
         IN  IF rc # PLDM_SUCCESS
             THEN Outcome(ccOnlyResponse(req, rc), Append(called, i), FALSE)
             ELSE RunHandlers(req, handlers, i + 1, Append(called, i))

\* platformEventMessage answering success for a class without handlers
platformEventMessageLenient(handlerMap, oem, req) ==
    IF req.decodeRc # PLDM_SUCCESS
    THEN Outcome(ccOnlyResponse(req, req.decodeRc), <<>>, FALSE)
    ELSE IF req.eventClass = PLDM_HEARTBEAT_TIMER_ELAPSED_EVENT
    THEN Outcome(EncodedResponse(req, PLDM_SUCCESS), <<>>, oem)
    ELSE IF req.eventClass \notin DOMAIN handlerMap
    THEN Outcome(EncodedResponse(req, PLDM_SUCCESS), <<>>, FALSE)
    ELSE RunHandlers(req, handlerMap[req.eventClass], 1, <<>>)

platformEventMessage(handlerMap, oem, req) ==
    IF req.decodeRc # PLDM_SUCCESS
    THEN Outcome(ccOnlyResponse(req, req.decodeRc), <<>>, FALSE)
    ELSE IF req.eventClass = PLDM_HEARTBEAT_TIMER_ELAPSED_EVENT
    THEN Outcome(EncodedResponse(req, PLDM_SUCCESS), <<>>, oem)
    ELSE IF req.eventClass \notin DOMAIN handlerMap
    THEN Outcome(ccOnlyResponse(req, PLDM_ERROR_INVALID_DATA), <<>>, FALSE)
    ELSE RunHandlers(req, handlerMap[req.eventClass], 1, <<>>)

\* a responder with its handlers registered: any list of handlers for
\* PLDM_SENSOR_EVENT, or no list at all
ResponderInit ==
    /\ PollerInit
    /\ \E D \in SUBSET {PLDM_SENSOR_EVENT} : \E hs \in HandlerLists :
          eventHandlers = [c \in D |-> hs]
    /\ oemPlatformHandler \in BOOLEAN
    /\ request = <<>>
    /\ response = <<>>
    /\ invoked = <<>>
    /\ watchDogReset = FALSE
    /\ CommandsIdle
    /\ HostPdrIdle
    /\ EventsIdle
    /\ BiosIdle
    /\ ScanIdle

PlatformEventMessage ==
    \E req \in Requests :
        LET out == platformEventMessage(eventHandlers, oemPlatformHandler, req)
        IN  /\ request' = <<req>>
            /\ response' = <<out.response>>
            /\ invoked' = out.invoked
            /\ watchDogReset' = out.watchDogReset
            /\ UNCHANGED <<eventHandlers, oemPlatformHandler>>
            /\ UNCHANGED <<isProcessPolling, isPolling, responseReceived,
                           isCritical, reqData, recvData, critEventQueue,
                           instanceId, eventHndls, pollEventReqTimer,
                           pollReqTimeoutTimer, allocated, registered,
                           running, rxConcat, lastOp>>
            /\ UNCHANGED platformVars

ResponderNext == PlatformEventMessage

SpecResponder == ResponderInit /\ [][ResponderNext]_vars

(***************************************************************************)
(* The command handlers getPDR, setStateEffecterStates,                    *)
(* setNumericEffecterValue and getStateSensorReadings.  A request is       *)
(* [command, instanceId]; what the length check, the decoders, the         *)
(* repository, the effecter and sensor handlers and the encoders yield is  *)
(* the environment env of the call.                                        *)
(***************************************************************************)
PLDM_ERROR_NOT_READY == 4
PLDM_PLATFORM_INVALID_RECORD_HANDLE == 130

Commands ==
    {"getPDR", "setStateEffecterStates", "setNumericEffecterValue",
     "getStateSensorReadings"}

CommandRequests == [command : Commands, instanceId : {0, 1}]

\* isHostUp: hostPDRHandler->isHostUp(); checkBMCState: what
\* oemPlatformHandler->checkBMCState() returns; lengthOk: the test of
\* payloadLength passes; decodeRc: what the decoder of the request returns;
\* recordFound: getRecordByHandle returns a record; throws: the access to the
\* repository throws; handlerRc: what the effecter or sensor handler
\* returns; encodeRc: what the encoder of the response returns
GetPDREnvironments ==
    [isHostUp : BOOLEAN, checkBMCState : {PLDM_SUCCESS, PLDM_ERROR},
     lengthOk : BOOLEAN, decodeRc : {PLDM_SUCCESS, PLDM_ERROR_INVALID_DATA},
     recordFound : BOOLEAN, throws : BOOLEAN,
     encodeRc : {PLDM_SUCCESS, PLDM_ERROR_INVALID_DATA}]

Environments ==
    [lengthOk : BOOLEAN, decodeRc : {PLDM_SUCCESS, PLDM_ERROR_INVALID_DATA},
     handlerRc : {PLDM_SUCCESS, PLDM_ERROR},
     encodeRc : {PLDM_SUCCESS, PLDM_ERROR_INVALID_DATA}]

\* what a command leaves: the response and pdrCreated
CommandOutcome(resp, created) == [response |-> resp, pdrCreated |-> created]

\* getPDR answering an unknown record handle with a full response
getPDRFullResponse(hostPdr, oem, created, req, env) ==
    IF hostPdr /\ env.isHostUp /\ oem /\ env.checkBMCState # PLDM_SUCCESS
    THEN CommandOutcome(ccOnlyResponse(req, PLDM_ERROR_NOT_READY), created)
    ELSE CommandOutcome(
           IF ~env.lengthOk
           THEN ccOnlyResponse(req, PLDM_ERROR_INVALID_LENGTH)
           ELSE IF env.decodeRc # PLDM_SUCCESS
           THEN ccOnlyResponse(req, env.decodeRc)
           ELSE IF env.throws
           THEN ccOnlyResponse(req, PLDM_ERROR)
           ELSE IF ~env.recordFound
           THEN EncodedResponse(req, PLDM_PLATFORM_INVALID_RECORD_HANDLE)
           ELSE IF env.encodeRc # PLDM_SUCCESS
           THEN ccOnlyResponse(req, env.encodeRc)
           ELSE EncodedResponse(req, PLDM_SUCCESS),
           TRUE)

\* Handler::getPDR: the repository is built (pdrCreated) once the BMC state
\* check has passed, before the request is looked at
getPDR(hostPdr, oem, created, req, env) ==
    IF hostPdr /\ env.isHostUp /\ oem /\ env.checkBMCState # PLDM_SUCCESS
    THEN CommandOutcome(ccOnlyResponse(req, PLDM_ERROR_NOT_READY), created)
    ELSE CommandOutcome(
           IF ~env.lengthOk
           THEN ccOnlyResponse(req, PLDM_ERROR_INVALID_LENGTH)
           ELSE IF env.decodeRc # PLDM_SUCCESS
           THEN ccOnlyResponse(req, env.decodeRc)
           ELSE IF env.throws
           THEN ccOnlyResponse(req, PLDM_ERROR)
           ELSE IF ~env.recordFound
           THEN ccOnlyResponse(req, PLDM_PLATFORM_INVALID_RECORD_HANDLE)
           ELSE IF env.encodeRc # PLDM_SUCCESS
           THEN ccOnlyResponse(req, env.encodeRc)
           ELSE EncodedResponse(req, PLDM_SUCCESS),
           TRUE)

\* the terminus handle and the tid of the BMC, and its MCTP endpoint id
TERMINUS_HANDLE == 1
TERMINUS_ID == 1
BmcMctpEid == 8

\* repo.addRecord: the record appended under the next record handle
addRecord(repo, origin) ==
    Append(repo, [recordHandle |-> Len(repo) + 1, origin |-> origin])

\* what the build leaves: the repository and hostPDRHandler->tlPDRInfo
RepoOutcome(repo, tl) == [pdrRepo |-> repo, tlPDRInfo |-> tl]

\* Handler::generateTerminusLocatorPDR
generateTerminusLocatorPDR(hostPdr, repo, tl) ==
    RepoOutcome(
      addRecord(repo, "terminusLocator"),
      IF hostPdr
      THEN [th \in DOMAIN tl \cup {TERMINUS_HANDLE} |->
              IF th = TERMINUS_HANDLE
              THEN <<TERMINUS_ID, BmcMctpEid, TRUE>>
              ELSE tl[th]]
      ELSE tl)

\* Handler::generate adding the n PDRs of the JSON files
RECURSIVE generate(_, _)
generate(repo, n) ==
    IF n = 0 THEN repo ELSE generate(addRecord(repo, "json"), n - 1)

\* the body of if (!pdrCreated): the terminus locator PDR, the PDRs of the
\* JSON files, and the OEM PDRs when an OEM platform handler is configured
buildPDRs(hostPdr, oem, repo, tl, n) ==
    LET t == generateTerminusLocatorPDR(hostPdr, repo, tl)
        j == generate(t.pdrRepo, n)
    IN  RepoOutcome(IF oem THEN addRecord(j, "oem") ELSE j, t.tlPDRInfo)

\* getPDR building the repository only for a request of the right length
getPDRRepoAfterLength(hostPdr, oem, created, repo, tl, env, n) ==
    IF hostPdr /\ env.isHostUp /\ oem /\ env.checkBMCState # PLDM_SUCCESS
    THEN RepoOutcome(repo, tl)
    ELSE IF ~created /\ env.lengthOk
    THEN buildPDRs(hostPdr, oem, repo, tl, n)
    ELSE RepoOutcome(repo, tl)

\* Handler::getPDR, lines 152-178: what it does to the repository
getPDRRepo(hostPdr, oem, created, repo, tl, env, n) ==
    IF hostPdr /\ env.isHostUp /\ oem /\ env.checkBMCState # PLDM_SUCCESS
    THEN RepoOutcome(repo, tl)
    ELSE IF ~created
    THEN buildPDRs(hostPdr, oem, repo, tl, n)
    ELSE RepoOutcome(repo, tl)

\* Handler::setStateEffecterStates
setStateEffecterStates(created, req, env) ==
    CommandOutcome(
      IF ~env.lengthOk
      THEN ccOnlyResponse(req, PLDM_ERROR_INVALID_LENGTH)
      ELSE IF env.decodeRc # PLDM_SUCCESS
      THEN ccOnlyResponse(req, env.decodeRc)
      ELSE IF env.handlerRc # PLDM_SUCCESS
      THEN ccOnlyResponse(req, env.handlerRc)
      ELSE IF env.encodeRc # PLDM_SUCCESS
      THEN ccOnlyResponse(req, env.encodeRc)
      ELSE EncodedResponse(req, PLDM_SUCCESS),
      created)

\* Handler::setNumericEffecterValue: the handler runs when the request
\* decodes; the response is ccOnlyResponse(request, rc) in every case
setNumericEffecterValue(created, req, env) ==
    CommandOutcome(
      IF ~env.lengthOk
      THEN ccOnlyResponse(req, PLDM_ERROR_INVALID_LENGTH)
      ELSE IF env.decodeRc # PLDM_SUCCESS
      THEN ccOnlyResponse(req, env.decodeRc)
      ELSE ccOnlyResponse(req, env.handlerRc),
      created)

\* Handler::getStateSensorReadings
getStateSensorReadings(created, req, env) ==
    CommandOutcome(
      IF ~env.lengthOk
      THEN ccOnlyResponse(req, PLDM_ERROR_INVALID_LENGTH)
      ELSE IF env.decodeRc # PLDM_SUCCESS
      THEN ccOnlyResponse(req, env.decodeRc)
      ELSE IF env.handlerRc # PLDM_SUCCESS
      THEN ccOnlyResponse(req, env.handlerRc)
      ELSE IF env.encodeRc # PLDM_SUCCESS
      THEN ccOnlyResponse(req, env.encodeRc)
      ELSE EncodedResponse(req, PLDM_SUCCESS),
      created)

\* a responder with one handler for PLDM_SENSOR_EVENT, which fails, with or
\* without OEM platform handler and host PDR handler
CommandsInit ==
    /\ PollerInit
    /\ eventHandlers = [c \in {PLDM_SENSOR_EVENT} |-> <<PLDM_ERROR>>]
    /\ oemPlatformHandler \in BOOLEAN
    /\ request = <<>>
    /\ response = <<>>
    /\ invoked = <<>>
    /\ watchDogReset = FALSE
    /\ CommandsIdle
    /\ hostPDRHandler \in BOOLEAN
    /\ pdrRepo = <<>>
    /\ tlPDRInfo = <<>>
    /\ isHostPdrModified = FALSE
    /\ sensorMap = <<>>
    /\ EventsIdle
    /\ BiosIdle
    /\ ScanIdle

\* the command req answered with out
Answer(req, out) ==
    /\ cmdRequest' = <<req>>
    /\ cmdResponse' = <<out.response>>
    /\ pdrCreated' = out.pdrCreated
    /\ UNCHANGED <<pollerVars, lastOp, responderVars, hostPdrVars, eventVars,
                   biosVars, scan>>

\* n: the PDRs the JSON files of pdrJsonsDir describe
GetPDR ==
    \E req \in CommandRequests, env \in GetPDREnvironments,
       n \in IF pdrCreated THEN {0} ELSE {0, 1} :
        LET out == getPDR(hostPDRHandler, oemPlatformHandler, pdrCreated,
                          req, env)
            built == getPDRRepo(hostPDRHandler, oemPlatformHandler,
                                pdrCreated, pdrRepo, tlPDRInfo, env, n)
        IN  /\ req.command = "getPDR"
            /\ cmdRequest' = <<req>>
            /\ cmdResponse' = <<out.response>>
            /\ pdrCreated' = out.pdrCreated
            /\ pdrRepo' = built.pdrRepo
            /\ tlPDRInfo' = built.tlPDRInfo
            /\ UNCHANGED <<pollerVars, lastOp, responderVars, hostPDRHandler,
                           isHostPdrModified, sensorMap, eventVars, biosVars,
                           scan>>

SetStateEffecterStates ==
    \E req \in CommandRequests, env \in Environments :
        /\ req.command = "setStateEffecterStates"
        /\ Answer(req, setStateEffecterStates(pdrCreated, req, env))

SetNumericEffecterValue ==
    \E req \in CommandRequests, env \in Environments :
        /\ req.command = "setNumericEffecterValue"
        /\ Answer(req, setNumericEffecterValue(pdrCreated, req, env))

GetStateSensorReadings ==
    \E req \in CommandRequests, env \in Environments :
        /\ req.command = "getStateSensorReadings"
        /\ Answer(req, getStateSensorReadings(pdrCreated, req, env))

CommandsNext ==
    \/ PlatformEventMessage
    \/ GetPDR
    \/ SetStateEffecterStates
    \/ SetNumericEffecterValue
    \/ GetStateSensorReadings

SpecCommands == CommandsInit /\ [][CommandsNext]_vars

(***************************************************************************)
(* The event class handlers Handler::sensorEvent and                       *)
(* Handler::pldmPDRRepositoryChgEvent.  An event is what the decoders      *)
(* yield for its data, together with the tid of the sender.                *)
(***************************************************************************)
\* the change records of an event
MaxChangeRecords == 1
\* the change entries of a change record
MaxChangeEntries == 1

PLDM_STATE_SENSOR_STATE == 1
PLDM_NUMERIC_SENSOR_STATE == 2
PLDM_TID_RESERVED == 255
REFRESH_ENTIRE_REPOSITORY == 0
FORMAT_IS_PDR_TYPES == 1
FORMAT_IS_PDR_HANDLES == 2
PLDM_RECORDS_ADDED == 2
PLDM_RECORDS_MODIFIED == 3

\* sizeof(ChangeEntry)
ChangeEntrySize == 4
\* the dataOffset decode_pldm_pdr_repository_change_record_data yields: the
\* bytes of a change record in front of its entries
ChangeRecordHeader == 2

\* the terminus ids events come from
Tids == {1, 2}

\* a record of the repository
PdrRecord(handle, th) == [recordHandle |-> handle, terminusHandle |-> th]

\* pldm_pdr_remove_pdrs_by_terminus_handle(repo, th)
removePdrsByTerminusHandle(repo, th) ==
    SelectSeq(repo, LAMBDA r : r.terminusHandle # th)

\* ---- sensorEvent ----
\* sensorEventClass 0 is a class other than the two handled
SensorEvents ==
    {[handler |-> "sensorEvent", tid |-> 1, decodeRc |-> PLDM_ERROR,
      sensorId |-> 1, sensorEventClass |-> PLDM_STATE_SENSOR_STATE,
      classDecodeRc |-> PLDM_SUCCESS, sensorOffset |-> 0, eventState |-> 1,
      handlerRc |-> PLDM_SUCCESS]}
    \cup
    [handler : {"sensorEvent"}, tid : {1}, decodeRc : {PLDM_SUCCESS},
     sensorId : {1}, sensorEventClass : {0, PLDM_STATE_SENSOR_STATE,
                                         PLDM_NUMERIC_SENSOR_STATE},
     classDecodeRc : {PLDM_SUCCESS, PLDM_ERROR}, sensorOffset : {0},
     eventState : {1}, handlerRc : {PLDM_SUCCESS}]
    \cup
    [handler : {"sensorEvent"}, tid : Tids, decodeRc : {PLDM_SUCCESS},
     sensorId : {1, 2, 3}, sensorEventClass : {PLDM_STATE_SENSOR_STATE},
     classDecodeRc : {PLDM_SUCCESS}, sensorOffset : {0, 1, 2},
     eventState : {1, 3}, handlerRc : {PLDM_SUCCESS, PLDM_ERROR}]

\* what a class handler leaves
EventOutcome(rc, calls, sigs) ==
    [rc |-> rc, stateSensorEvents |-> calls, signals |-> sigs]

\* the state sensor event handed to hostPDRHandler->handleStateSensorEvent
StateSensorCall(info, ev) ==
    [containerId |-> info.entityInfo[1], entityType |-> info.entityInfo[2],
     entityInstance |-> info.entityInfo[3], sensorOffset |-> ev.sensorOffset,
     eventState |-> ev.eventState]

\* the rest of the state sensor branch once the sensor is found: the handler
\* runs for every offset and state
HandleFoundSensorUnchecked(info, ev, sigs) ==
    EventOutcome(ev.handlerRc, <<StateSensorCall(info, ev)>>, sigs)

\* the rest of the state sensor branch once the sensor is found
HandleFoundSensor(info, ev, sigs) ==
    IF ev.sensorOffset >= Len(info.compositeSensorStates)
    THEN EventOutcome(PLDM_ERROR_INVALID_DATA, <<>>, sigs)
    ELSE IF ev.eventState
              \notin info.compositeSensorStates[ev.sensorOffset + 1]
    THEN EventOutcome(PLDM_ERROR_INVALID_DATA, <<>>, sigs)
    ELSE EventOutcome(ev.handlerRc, <<StateSensorCall(info, ev)>>, sigs)

\* Handler::sensorEvent
sensorEvent(hostPdr, map, ev) ==
    IF ev.decodeRc # PLDM_SUCCESS
    THEN EventOutcome(ev.decodeRc, <<>>, <<>>)
    ELSE IF ev.sensorEventClass = PLDM_STATE_SENSOR_STATE
    THEN IF ev.classDecodeRc # PLDM_SUCCESS
         THEN EventOutcome(PLDM_ERROR, <<>>, <<>>)
         ELSE LET sigs == <<"StateSensorEvent">>
                  own == <<ev.tid, ev.sensorId>>
                  reserved == <<PLDM_TID_RESERVED, ev.sensorId>>
              IN  IF ~hostPdr
                  THEN EventOutcome(PLDM_SUCCESS, <<>>, sigs)
                  ELSE IF own \in DOMAIN map
                  THEN HandleFoundSensor(map[own], ev, sigs)
                  ELSE IF reserved \in DOMAIN map
                  THEN HandleFoundSensor(map[reserved], ev, sigs)
                  ELSE EventOutcome(PLDM_SUCCESS, <<>>, sigs)
    ELSE IF ev.sensorEventClass = PLDM_NUMERIC_SENSOR_STATE
    THEN IF ev.classDecodeRc # PLDM_SUCCESS
         THEN EventOutcome(PLDM_ERROR, <<>>, <<>>)
         ELSE EventOutcome(PLDM_SUCCESS, <<>>, <<"NumericSensorEvent">>)
    ELSE EventOutcome(PLDM_ERROR_INVALID_DATA, <<>>, <<>>)

\* ---- pldmPDRRepositoryChgEvent ----
\* operation 1 is RecordsDeleted
ChangeRecords ==
    [op : {1, PLDM_RECORDS_ADDED, PLDM_RECORDS_MODIFIED},
     n : 0..MaxChangeEntries]

ChangeRecordLists == SeqsUpTo(ChangeRecords, MaxChangeRecords)

\* the bytes the records take when none is cut short
RECURSIVE RecordBytes(_)
RecordBytes(rs) ==
    IF rs = <<>> THEN 0
    ELSE ChangeRecordHeader + rs[1].n * ChangeEntrySize
         + RecordBytes(Tail(rs))

\* size: the bytes of change record data, which may end before the last
\* record does: 4 or 5 bytes early
ChgEvents ==
    {[handler |-> "pldmPDRRepositoryChgEvent", tid |-> 1,
      decodeRc |-> PLDM_ERROR_INVALID_LENGTH,
      eventDataFormat |-> REFRESH_ENTIRE_REPOSITORY, records |-> <<>>,
      size |-> 0],
     [handler |-> "pldmPDRRepositoryChgEvent", tid |-> 1,
      decodeRc |-> PLDM_SUCCESS,
      eventDataFormat |-> FORMAT_IS_PDR_TYPES, records |-> <<>>,
      size |-> 0]}
    \cup
    {[handler |-> "pldmPDRRepositoryChgEvent", tid |-> tid,
      decodeRc |-> PLDM_SUCCESS,
      eventDataFormat |-> REFRESH_ENTIRE_REPOSITORY, records |-> <<>>,
      size |-> 0] : tid \in Tids}
    \cup
    UNION {{[handler |-> "pldmPDRRepositoryChgEvent", tid |-> 1,
             decodeRc |-> PLDM_SUCCESS,
             eventDataFormat |-> FORMAT_IS_PDR_HANDLES, records |-> rs,
             size |-> RecordBytes(rs) - short] :
               short \in {k \in {0, 4, 5} : k <= RecordBytes(rs)}} :
           rs \in ChangeRecordLists}

\* a write through the null hostPDRHandler: the process aborts, or the
\* write is without effect
NullWriteOutcomes == {"abort", "ignored"}

\* the loop reading change records past the end of the event data: the
\* process aborts, or a decoder rejects what it reads
OverrunOutcomes == {"abort", "error"}

\* what the loop over the change records leaves
ChgLoopOutcome(rc, handles, modified, up) ==
    [rc |-> rc, handles |-> handles, modified |-> modified, running |-> up]

\* decode_pldm_pdr_repository_change_record_data on what is left of the
\* event data: it fails on less than the bytes it reads
DecodeChangeRecord(rec, size) ==
    IF size < ChangeRecordHeader
    THEN PLDM_ERROR_INVALID_LENGTH
    ELSE PLDM_SUCCESS

\* Handler::getPDRRecordHandles
getPDRRecordHandles(n, size, handles) ==
    IF n > (size \div ChangeEntrySize)
    THEN [rc |-> PLDM_ERROR_INVALID_DATA, handles |-> handles]
    ELSE [rc |-> PLDM_SUCCESS,
          handles |-> handles \o [k \in 1..n |-> k]]

\* while (changeRecordDataSize), from the i-th change record on
RECURSIVE ChangeRecordLoop(_, _, _, _, _, _, _, _)
ChangeRecordLoop(hostPdr, recs, i, size, handles, modified, ubNull, ubRead) ==
    IF size = 0
    THEN ChgLoopOutcome(PLDM_SUCCESS, handles, modified, TRUE)
    ELSE IF i > Len(recs)
    THEN ChgLoopOutcome(PLDM_ERROR_INVALID_LENGTH, handles, modified,
                        ubRead # "abort")
    ELSE
    LET rec == recs[i]
        rc == DecodeChangeRecord(rec, size)
        used == ChangeRecordHeader + rec.n * ChangeEntrySize
    IN  IF rc # PLDM_SUCCESS
        THEN ChgLoopOutcome(rc, handles, modified, TRUE)
        ELSE IF rec.op \in {PLDM_RECORDS_ADDED, PLDM_RECORDS_MODIFIED}
        THEN IF rec.op = PLDM_RECORDS_MODIFIED /\ ~hostPdr
                /\ ubNull = "abort"
             THEN ChgLoopOutcome(PLDM_ERROR, handles, modified, FALSE)
             ELSE
             LET mod == IF rec.op = PLDM_RECORDS_MODIFIED /\ hostPdr
                        THEN TRUE ELSE modified
                 got == getPDRRecordHandles(rec.n, size - ChangeRecordHeader,
                                            handles)
             IN  IF got.rc # PLDM_SUCCESS
                 THEN ChgLoopOutcome(got.rc, handles, mod, TRUE)
                 ELSE ChangeRecordLoop(hostPdr, recs, i + 1, size - used,
                                       got.handles, mod, ubNull, ubRead)
        ELSE IF used > size
        THEN ChgLoopOutcome(PLDM_ERROR_INVALID_LENGTH, handles, modified,
                            ubRead # "abort")
        ELSE ChangeRecordLoop(hostPdr, recs, i + 1, size - used, handles,
                              modified, ubNull, ubRead)

\* what pldmPDRRepositoryChgEvent leaves
ChgOutcome(rc, repo, tl, modified, calls, up) ==
    [rc |-> rc, pdrRepo |-> repo, tlPDRInfo |-> tl,
     isHostPdrModified |-> modified, fetchPDR |-> calls, running |-> up]

\* the terminus handles that tlPDRInfo maps to tid
HandlesOfTid(tl, tid) == {th \in DOMAIN tl : tl[th][1] = tid}

\* the records of every terminus handle in ths removed
RECURSIVE RemoveAll(_, _)
RemoveAll(repo, ths) ==
    IF ths = {} THEN repo
    ELSE LET th == CHOOSE h \in ths : TRUE
         IN  RemoveAll(removePdrsByTerminusHandle(repo, th), ths \ {th})

\* the refresh removing the records of the lowest matching terminus handle
\* only
RefreshFirstHandleOnly(repo, tl, tid) ==
    LET ths == HandlesOfTid(tl, tid)
        first == {th \in ths : \A o \in ths : th <= o}
    IN  [pdrRepo |-> RemoveAll(repo, first),
         tlPDRInfo |-> [th \in DOMAIN tl \ first |-> tl[th]]]

\* the loop over hostPDRHandler->tlPDRInfo for REFRESH_ENTIRE_REPOSITORY
RefreshEntireRepository(repo, tl, tid) ==
    LET ths == HandlesOfTid(tl, tid)
    IN  [pdrRepo |-> RemoveAll(repo, ths),
         tlPDRInfo |-> [th \in DOMAIN tl \ ths |-> tl[th]]]

\* Handler::pldmPDRRepositoryChgEvent
pldmPDRRepositoryChgEvent(hostPdr, repo, tl, modified, ev, ubNull, ubRead) ==
    IF ev.decodeRc # PLDM_SUCCESS
    THEN ChgOutcome(ev.decodeRc, repo, tl, modified, <<>>, TRUE)
    ELSE IF ev.eventDataFormat = FORMAT_IS_PDR_TYPES
    THEN ChgOutcome(PLDM_ERROR_INVALID_DATA, repo, tl, modified, <<>>, TRUE)
    ELSE
    LET loop == IF ev.eventDataFormat = FORMAT_IS_PDR_HANDLES
                THEN ChangeRecordLoop(hostPdr, ev.records, 1, ev.size, <<>>,
                                      modified, ubNull, ubRead)
                ELSE ChgLoopOutcome(PLDM_SUCCESS, <<>>, modified, TRUE)
    IN  IF ~loop.running \/ loop.rc # PLDM_SUCCESS
        THEN ChgOutcome(loop.rc, repo, tl, loop.modified, <<>>, loop.running)
        ELSE IF ~hostPdr
        THEN ChgOutcome(PLDM_SUCCESS, repo, tl, loop.modified, <<>>, TRUE)
        ELSE IF ev.eventDataFormat = REFRESH_ENTIRE_REPOSITORY
        THEN LET r == RefreshEntireRepository(repo, tl, ev.tid)
             IN  ChgOutcome(PLDM_SUCCESS, r.pdrRepo, r.tlPDRInfo,
                            loop.modified, <<loop.handles>>, TRUE)
        ELSE ChgOutcome(PLDM_SUCCESS, repo, tl, loop.modified,
                        <<loop.handles>>, TRUE)

\* whether the event makes the handler write through a null hostPDRHandler
WritesThroughNull(hostPdr, ev) ==
    /\ ~hostPdr
    /\ ev.decodeRc = PLDM_SUCCESS
    /\ ev.eventDataFormat = FORMAT_IS_PDR_HANDLES
    /\ \E i \in 1..Len(ev.records) :
          ev.records[i].op = PLDM_RECORDS_MODIFIED

\* whether the event has a change record that is not RecordsAdded or
\* RecordsModified
HasOtherOperation(ev) ==
    /\ ev.decodeRc = PLDM_SUCCESS
    /\ ev.eventDataFormat = FORMAT_IS_PDR_HANDLES
    /\ \E i \in 1..Len(ev.records) :
          ev.records[i].op
             \notin {PLDM_RECORDS_ADDED, PLDM_RECORDS_MODIFIED}

\* the repository of a BMC that has fetched the PDRs of two termini: the
\* terminus handles 1 and 3 belong to tid 1, 2 to tid 2; the records of
\* terminus handle 4 are the BMC's own
HostRepo ==
    <<PdrRecord(1, 1), PdrRecord(2, 2), PdrRecord(3, 3), PdrRecord(4, 4),
      PdrRecord(5, 1)>>

\* terminus handle -> <<tid, eid, validity>>
HostTlPDRInfo ==
    [th \in {1, 2, 3} |-> <<IF th = 2 THEN 2 ELSE 1, 10 + th, TRUE>>]

\* <<tid, sensorId>> -> the entity and the possible states of each sensor
\* of the composite
HostSensorMap ==
    [key \in {<<1, 1>>, <<PLDM_TID_RESERVED, 1>>, <<PLDM_TID_RESERVED, 2>>}
       |-> IF key = <<1, 1>>
           THEN [entityInfo |-> <<10, 20, 30>>,
                 compositeSensorStates |-> <<{1}, {1, 3}>>]
           ELSE IF key = <<PLDM_TID_RESERVED, 1>>
           THEN [entityInfo |-> <<11, 21, 31>>,
                 compositeSensorStates |-> <<{3}>>]
           ELSE [entityInfo |-> <<12, 22, 32>>,
                 compositeSensorStates |-> <<{1}, {1}, {3}>>]]

\* a responder with or without host PDR handler
EventsInit ==
    /\ PollerInit
    /\ ResponderIdle
    /\ CommandsIdle
    /\ hostPDRHandler \in BOOLEAN
    /\ pdrRepo = HostRepo
    /\ tlPDRInfo = IF hostPDRHandler THEN HostTlPDRInfo ELSE <<>>
    /\ sensorMap = IF hostPDRHandler THEN HostSensorMap ELSE <<>>
    /\ isHostPdrModified = FALSE
    /\ EventsIdle
    /\ BiosIdle
    /\ ScanIdle

SensorEvent ==
    /\ running
    /\ \E ev \in SensorEvents :
         LET out == sensorEvent(hostPDRHandler, sensorMap, ev)
         IN  /\ platformEvent' = <<ev>>
             /\ eventRc' = <<out.rc>>
             /\ stateSensorEvents' = out.stateSensorEvents
             /\ signals' = out.signals
             /\ fetchPDR' = <<>>
             /\ UNCHANGED <<pollerVars, lastOp, responderVars, commandVars,
                            hostPdrVars, biosVars, scan>>

PldmPDRRepositoryChgEvent ==
    /\ running
    /\ \E ev \in ChgEvents :
       \E ubNull \in IF WritesThroughNull(hostPDRHandler, ev)
                     THEN NullWriteOutcomes ELSE {"ignored"} :
       \E ubRead \in IF HasOtherOperation(ev)
                     THEN OverrunOutcomes ELSE {"error"} :
         LET out == pldmPDRRepositoryChgEvent(hostPDRHandler, pdrRepo,
                                              tlPDRInfo, isHostPdrModified,
                                              ev, ubNull, ubRead)
         IN  /\ platformEvent' = <<ev>>
             /\ eventRc' = IF out.running THEN <<out.rc>> ELSE <<>>
             /\ pdrRepo' = out.pdrRepo
             /\ tlPDRInfo' = out.tlPDRInfo
             /\ isHostPdrModified' = out.isHostPdrModified
             /\ fetchPDR' = out.fetchPDR
             /\ stateSensorEvents' = <<>>
             /\ signals' = <<>>
             /\ running' = out.running
             /\ UNCHANGED <<isProcessPolling, isPolling, responseReceived,
                            isCritical, reqData, recvData, critEventQueue,
                            instanceId, eventHndls, pollEventReqTimer,
                            pollReqTimeoutTimer, allocated, registered,
                            rxConcat, lastOp>>
             /\ UNCHANGED <<responderVars, commandVars, hostPDRHandler,
                            sensorMap, biosVars, scan>>

EventsNext == SensorEvent \/ PldmPDRRepositoryChgEvent

SpecEvents == EventsInit /\ [][EventsNext]_vars

(***************************************************************************)
(* The BIOS attribute registry (namespace bios_parser).  A directory is    *)
(* [exists, files]; a file is [status, entries]: "missing", "malformed" or  *)
(* "parsed" with the entries of its "entries" array; an entry is           *)
(* [attribute_name,                                                        *)
(* possible_values, valid, dbus]: valid tells whether the entry passes the *)
(* checks of its kind (string type known, string-info or integer-info      *)
(* check), dbus whether it carries a complete D-Bus mapping.               *)
(***************************************************************************)
\* the entries of a BIOS JSON file
MaxEntries == 1

\* BIOSConfigFiles = {bIOSEnumJson, bIOSStrJson, bIOSIntegerJson}
BIOSConfigFiles == <<"enum", "string", "integer">>

BiosEntries(kind) ==
    IF kind = "enum"
    THEN {[attribute_name |-> "a", possible_values |-> <<"x">>,
           valid |-> TRUE, dbus |-> FALSE]}
    ELSE IF kind = "string"
    THEN {[attribute_name |-> "b", possible_values |-> <<>>,
           valid |-> TRUE, dbus |-> TRUE],
          [attribute_name |-> "b", possible_values |-> <<>>,
           valid |-> FALSE, dbus |-> FALSE]}
    ELSE [attribute_name : {"a"}, possible_values : {<<>>},
          valid : {TRUE}, dbus : {FALSE}]

NoFile == [status |-> "missing", entries |-> <<>>]

FileContents(kind) ==
    {NoFile, [status |-> "malformed", entries |-> <<>>]}
    \cup [status : {"parsed"},
          entries : SeqsUpTo(BiosEntries(kind), MaxEntries)]

Dirs ==
    {[exists |-> FALSE, files |-> [k \in {"enum", "string", "integer"}
                                     |-> NoFile]]}
    \cup
    {[exists |-> TRUE,
      files |-> [k \in {"enum", "string", "integer"}
                   |-> IF k = "enum" THEN e
                       ELSE IF k = "string" THEN s ELSE i]] :
        e \in FileContents("enum"), s \in FileContents("string"),
        i \in FileContents("integer")}

\* parseBiosJsonFile: whether the file is there and parses
Parses(dir, kind) == dir.files[kind].status = "parsed"

\* fs::is_empty(dir)
IsEmptyDir(dir) == \A k \in DOMAIN dir.files : dir.files[k] = NoFile

\* std::map::emplace: an existing key keeps its value
Emplace(map, key, value) ==
    IF key \in DOMAIN map
    THEN map
    ELSE [k \in DOMAIN map \cup {key} |->
            IF k = key THEN value ELSE map[k]]

\* the registry as a record
Registry ==
    [BIOSStrings |-> BIOSStrings, BIOSAttrLookup |-> BIOSAttrLookup,
     valueMap |-> valueMap]

\* setupBIOSStrings: the attribute name, and for an enumeration its possible
\* values (bios_enum::setupBIOSStrings)
setupBIOSStrings(kind, entry, strings) ==
    IF kind = "enum"
    THEN Append(strings, entry.attribute_name) \o entry.possible_values
    ELSE Append(strings, entry.attribute_name)

\* setupBIOSAttrLookup
setupBIOSAttrLookup(entry, lookup) ==
    Emplace(lookup, entry.attribute_name,
            IF entry.dbus THEN "dbus" ELSE "nullopt")

\* setupBIOSType: bios_enum::setup, bios_string::setup, bios_integer::setup;
\* the two last return -1 without an entry in the value map when the entry
\* fails their check
setupBIOSType(kind, entry, values) ==
    IF kind # "enum" /\ ~entry.valid
    THEN values
    ELSE [values EXCEPT ![kind] =
            Emplace(@, entry.attribute_name,
                    [readOnly |-> ~entry.dbus,
                     possible_values |-> entry.possible_values])]

\* getAttrValue of the kind's namespace: the property read over D-Bus, the
\* default of the value map, or std::out_of_range thrown by valueMap.at
getAttrValue(lookup, values, kind, attrName) ==
    IF lookup[attrName] # "nullopt"
    THEN "dbus"
    ELSE IF attrName \in DOMAIN values[kind]
    THEN "default"
    ELSE "out_of_range"

\* for (auto& entry : entries), from the i-th entry on
RECURSIVE IngestEntries(_, _, _, _)
IngestEntries(reg, kind, entries, i) ==
    IF i > Len(entries)
    THEN reg
    ELSE IngestEntries(
           [BIOSStrings |-> setupBIOSStrings(kind, entries[i],
                                             reg.BIOSStrings),
            BIOSAttrLookup |-> setupBIOSAttrLookup(entries[i],
                                                   reg.BIOSAttrLookup),
            valueMap |-> setupBIOSType(kind, entries[i], reg.valueMap)],
           kind, entries, i + 1)

\* for (auto jsonName : BIOSConfigFiles), from the j-th file on
RECURSIVE IngestFiles(_, _, _)
IngestFiles(reg, dir, j) ==
    IF j > Len(BIOSConfigFiles)
    THEN reg
    ELSE LET kind == BIOSConfigFiles[j]
         IN  IF ~Parses(dir, kind)
             THEN IngestFiles(reg, dir, j + 1)
             ELSE IngestFiles(IngestEntries(reg, kind,
                                            dir.files[kind].entries, 1),
                              dir, j + 1)

\* what setupConfig leaves
SetupOutcome(rc, reg) == [rc |-> rc, registry |-> reg]

\* setupConfig ingesting the directory whatever the registry holds
setupConfigAgain(reg, dir) ==
    IF ~dir.exists \/ IsEmptyDir(dir)
    THEN SetupOutcome(-1, reg)
    ELSE LET filled == IngestFiles(reg, dir, 1)
         IN  SetupOutcome(IF filled.BIOSStrings = <<>> THEN -1 ELSE 0,
                          filled)

\* setupConfig giving up at the first file that is missing or malformed
setupConfigStrict(reg, dir) ==
    IF reg.BIOSStrings # <<>> /\ DOMAIN reg.BIOSAttrLookup # {}
    THEN SetupOutcome(0, reg)
    ELSE IF ~dir.exists \/ IsEmptyDir(dir)
    THEN SetupOutcome(-1, reg)
    ELSE IF \E j \in 1..Len(BIOSConfigFiles) :
               ~Parses(dir, BIOSConfigFiles[j])
    THEN SetupOutcome(-1, reg)
    ELSE LET filled == IngestFiles(reg, dir, 1)
         IN  SetupOutcome(IF filled.BIOSStrings = <<>> THEN -1 ELSE 0,
                          filled)

\* bios_parser::setupConfig
setupConfig(reg, dir) ==
    IF reg.BIOSStrings # <<>> /\ DOMAIN reg.BIOSAttrLookup # {}
    THEN SetupOutcome(0, reg)
    ELSE IF ~dir.exists \/ IsEmptyDir(dir)
    THEN SetupOutcome(-1, reg)
    ELSE LET filled == IngestFiles(reg, dir, 1)
         IN  SetupOutcome(IF filled.BIOSStrings = <<>> THEN -1 ELSE 0,
                          filled)

\* the process before the first setupConfig
BiosInit ==
    /\ PollerInit
    /\ ResponderIdle
    /\ CommandsIdle
    /\ HostPdrIdle
    /\ EventsIdle
    /\ BiosIdle
    /\ ScanIdle

SetupConfig ==
    \E dir \in Dirs :
        LET out == setupConfig(Registry, dir)
        IN  /\ BIOSStrings' = out.registry.BIOSStrings
            /\ BIOSAttrLookup' = out.registry.BIOSAttrLookup
            /\ valueMap' = out.registry.valueMap
            /\ configDir' = <<dir>>
            /\ setupRc' = <<out.rc>>
            /\ UNCHANGED <<pollerVars, lastOp, responderVars, commandVars,
                           hostPdrVars, eventVars, scan>>

BiosNext == SetupConfig

SpecBios == BiosInit /\ [][BiosNext]_vars

(***************************************************************************)
(* The scans of isOemStateSensor and isOemStateEffecter.  A record of the  *)
(* repository is [pdrType, id, oem, compositeCount]: the sensor or         *)
(* effecter id of the PDR, whether its entity type or state set id is in   *)
(* the OEM range, and its composite count.  The records of a repository    *)
(* have the handles 1, 2, ...; pdrRecord is the handle of the record the   *)
(* scan is at, 0 for none.                                                 *)
(***************************************************************************)
\* the records of the repository
MaxRecords == 3

PLDM_STATE_SENSOR_PDR == 4
PLDM_STATE_EFFECTER_PDR == 11

\* the PDRs of id 2 are OEM PDRs
ScanRecords ==
    {[pdrType |-> ty, id |-> id, oem |-> (id = 2), compositeCount |-> 1] :
        ty \in {PLDM_STATE_SENSOR_PDR, PLDM_STATE_EFFECTER_PDR},
        id \in {1, 2}}

ScanRepos == SeqsUpTo(ScanRecords, MaxRecords)

\* getRepoByType(handler.getRepo(), dst, pdrType)
getRepoByType(repo, ty) == SelectSeq(repo, LAMBDA r : r.pdrType = ty)

\* Repo::getFirstRecord
getFirstRecord(repo) == IF repo = <<>> THEN 0 ELSE 1

\* Repo::getNextRecord: the record after cur; the last record has none
getNextRecord(repo, cur) == IF cur < Len(repo) THEN cur + 1 ELSE 0

\* the entry of isOemStateSensor (pdrType PLDM_STATE_SENSOR_PDR) or
\* isOemStateEffecter (PLDM_STATE_EFFECTER_PDR), up to the loop
startScan(repo, ty, id, count) ==
    LET filtered == getRepoByType(repo, ty)
    IN  IF filtered = <<>>
        THEN [pc |-> "done", pdrType |-> ty, id |-> id, count |-> count,
              repo |-> filtered, pdrRecord |-> 0, visited |-> <<>>,
              result |-> <<FALSE>>]
        ELSE [pc |-> "loop", pdrType |-> ty, id |-> id, count |-> count,
              repo |-> filtered, pdrRecord |-> getFirstRecord(filtered),
              visited |-> <<>>, result |-> <<>>]

\* the turn of the loop that does not move on from a record of another id
scanStepStays(s) ==
    IF s.pdrRecord = 0
    THEN [s EXCEPT !.pc = "done", !.result = <<FALSE>>]
    ELSE LET pdr == s.repo[s.pdrRecord]
             seen == Append(s.visited, s.pdrRecord)
         IN  IF pdr.id # s.id
             THEN [s EXCEPT !.visited = seen]
             ELSE IF s.count > pdr.compositeCount
             THEN [s EXCEPT !.pc = "done", !.visited = seen,
                            !.result = <<FALSE>>]
             ELSE [s EXCEPT !.pc = "done", !.visited = seen,
                            !.result = <<pdr.oem>>]

\* one turn of while (pdrRecord), or the return that follows the loop
scanStep(s) ==
    IF s.pdrRecord = 0
    THEN [s EXCEPT !.pc = "done", !.result = <<FALSE>>]
    ELSE LET pdr == s.repo[s.pdrRecord]
             seen == Append(s.visited, s.pdrRecord)
         IN  IF pdr.id # s.id
             THEN [s EXCEPT !.pdrRecord = getNextRecord(s.repo, s.pdrRecord),
                            !.visited = seen]
             ELSE IF s.count > pdr.compositeCount
             THEN [s EXCEPT !.pc = "done", !.visited = seen,
                            !.result = <<FALSE>>]
             ELSE [s EXCEPT !.pc = "done", !.visited = seen,
                            !.result = <<pdr.oem>>]

\* a responder with any repository of up to MaxRecords sensor and effecter
\* PDRs
ScanInit ==
    /\ PollerInit
    /\ ResponderIdle
    /\ CommandsIdle
    /\ hostPDRHandler = FALSE
    /\ pdrRepo \in ScanRepos
    /\ tlPDRInfo = <<>>
    /\ isHostPdrModified = FALSE
    /\ sensorMap = <<>>
    /\ EventsIdle
    /\ BiosIdle
    /\ ScanIdle

StartScan ==
    /\ scan.pc # "loop"
    /\ \E ty \in {PLDM_STATE_SENSOR_PDR, PLDM_STATE_EFFECTER_PDR},
          id \in {1, 2}, count \in {1, 2} :
          scan' = startScan(pdrRepo, ty, id, count)
    /\ UNCHANGED <<pollerVars, lastOp, responderVars, commandVars,
                   hostPdrVars, eventVars, biosVars>>

ScanStep ==
    /\ scan.pc = "loop"
    /\ scan' = scanStep(scan)
    /\ UNCHANGED <<pollerVars, lastOp, responderVars, commandVars,
                   hostPdrVars, eventVars, biosVars>>

ScanNext == StartScan \/ ScanStep

\* the loop runs on once it is entered
SpecScan == ScanInit /\ [][ScanNext]_vars /\ WF_vars(ScanStep)

(***************************************************************************)
(* Properties                                                              *)
(***************************************************************************)
Idle == ~isProcessPolling
Polling == isPolling
Reassembling == isProcessPolling /\ ~isPolling

\* the outcomes an insert of resp in the current state may have
UBChoices(resp) == IF HitsUB(Cur, resp) THEN UBOutcomes ELSE {"lost"}

\* C1: in every reachable state, isPolling implies that instanceId is
\* allocated at the requester, and ~isPolling implies that no instance id
\* the poller obtained is still allocated.
C1_InstanceIdHeld ==
    /\ isPolling => instanceId \in allocated
    /\ ~isPolling => allocated = {}

\* C2: at most one poll request of the endpoint is registered at the handler
\* at a time: pollEventReqCb never registers a request while an earlier one
\* is still registered.
C2_OneOutstanding == Cardinality(registered) <= 1

\* C3: in every reachable state isPolling implies isProcessPolling, and
\* exactly one of Idle, Polling and Reassembling holds.
C3_Phases ==
    /\ isPolling => isProcessPolling
    /\ Cardinality({p \in {"Idle", "Polling", "Reassembling"} :
                      \/ p = "Idle" /\ Idle
                      \/ p = "Polling" /\ Polling
                      \/ p = "Reassembling" /\ Reassembling}) = 1

\* C3 witness: processResponseMsg has left the poller Reassembling
C3_Witness ==
    /\ lastOp.op = "processResponseMsg"
    /\ lastOp.path = "start"
    /\ Reassembling

\* C4: isProcessPolling goes from true to false only in a step on which
\* reset() ran; every other step leaves it true.
C4_ClearedOnlyInReset ==
    [][isProcessPolling /\ ~isProcessPolling' => lastOp'.path \in ResetPaths]_vars

\* C4 witness: the acknowledgement of a transfer has been sent and
\* isProcessPolling is still true
C4_Witness ==
    /\ lastOp.path = "sent"
    /\ reqData.operationFlag = PLDM_ACKNOWLEDGEMENT_ONLY
    /\ isProcessPolling

\* C5: a step of normalEventCb taken while isProcessPolling or isCritical is
\* true, and a step of criticalEventCb taken while isProcessPolling is true,
\* changes no state of the poller: request state, queue, isCritical and the
\* poll-request timer stay as they are.
C5_CallbacksDefer ==
    [][(\/ lastOp'.op = "normalEventCb" /\ (isProcessPolling \/ isCritical)
        \/ lastOp'.op = "criticalEventCb" /\ isProcessPolling)
       => UNCHANGED pollerVars]_vars

\* C5 witness: criticalEventCb has deferred with an event waiting in the
\* queue and a transfer in progress
C5_Witness ==
    /\ lastOp.op = "criticalEventCb"
    /\ lastOp.path = "defer"
    /\ critEventQueue # <<>>
    /\ isProcessPolling
    /\ reqData.operationFlag = PLDM_GET_NEXTPART

\* C6: a critical tick during a transfer leaves the queue and the request
\* state untouched; a critical tick with no transfer in progress removes the
\* head of the queue and makes it the event id of a GetFirstPart request;
\* and that request state is still the same when the next step is not the
\* sending of the request, so that the next GetFirstPart request carries it.
C6_CriticalPicksUpHead ==
    [][/\ lastOp'.op = "criticalEventCb" /\ isProcessPolling
            => critEventQueue' = critEventQueue /\ reqData' = reqData
       /\ lastOp'.op = "criticalEventCb" /\ ~isProcessPolling
            /\ critEventQueue # <<>>
            => /\ critEventQueue' = Tail(critEventQueue)
               /\ reqData' = ReqPollInfo(PLDM_GET_FIRSTPART,
                                         Head(critEventQueue),
                                         Head(critEventQueue))
       /\ lastOp.op = "criticalEventCb" /\ lastOp.path = "arm"
            /\ reqData.eventIdToAck # EVENT_ID_TERMINATE
            /\ lastOp'.path # "sent"
            => reqData' = reqData]_vars

\* C7: no handler is invoked with event id 0x0000 or 0xFFFF, and a response
\* carrying one of these ids invokes no handler and leaves nothing in the
\* receive buffer, whatever the state it arrives in.
C7_ReservedIdsDropped ==
    /\ lastOp.handler =>
          reqData.eventIdToAck \notin {EVENT_ID_NULL, EVENT_ID_TERMINATE}
    /\ \A resp \in Responses(Cur) :
          resp.decodeOk
            /\ resp.eventId \in {EVENT_ID_NULL, EVENT_ID_TERMINATE}
          => LET s == processResponseMsg(Cur, resp, "lost")
             IN  ~s.trace.handler /\ s.recvData.data = <<>>

\* C7 witness: a response with a reserved id has been processed while
\* 0xFFFF sat in the critical queue
C7_Witness ==
    /\ lastOp.path = "reserved"
    /\ InQueue(critEventQueue, EVENT_ID_TERMINATE)
    /\ recvData.data = <<>>

\* C8: for a response that passes the event id checks and whose class has a
\* handler: with transfer flag END the handler is invoked iff the CRC-32 of
\* the receive buffer equals the checksum field; with START_AND_END it is
\* invoked whatever the checksum field is.
C8_ChecksumGate ==
    running /\ registered # {} =>
      \A resp \in Responses(Cur) : \A ub \in UBChoices(resp) :
        LET s == processResponseMsg(Cur, resp, ub)
        IN  /\ WithinBounds(s)
            /\ resp.decodeOk
            /\ resp.eventId \notin {EVENT_ID_NULL, EVENT_ID_TERMINATE}
            /\ ~EventIdMismatch(Cur, resp.eventId)
            /\ resp.eventClass \in eventHndls
            => /\ resp.transferFlag = PLDM_END =>
                    (s.trace.handler <=>
                        crc32(s.recvData.data) = resp.checksum)
               /\ resp.transferFlag = PLDM_START_AND_END => s.trace.handler

\* C9: an END response that fails the checksum invokes no handler and leaves
\* an AcknowledgementOnly request with handle 0 as the request state; that
\* request state is still the same when the next step is not the sending of
\* the request, so that the next request sent is this acknowledgement.
C9_AckAfterChecksumFailure ==
    [][/\ lastOp'.path = "checksum"
            => /\ ~lastOp'.handler
               /\ reqData'.operationFlag = PLDM_ACKNOWLEDGEMENT_ONLY
               /\ reqData'.dataTransferHandle = 0
       /\ lastOp.path = "checksum" /\ lastOp'.path # "sent"
            => reqData' = reqData]_vars

\* C10: whenever a handler is invoked, the bytes passed to it (the receive
\* buffer) are the payloads of the parts of the event in the order they were
\* received.
C10_HandlerGetsConcatenation ==
    lastOp.handler => recvData.data = rxConcat

\* the paths of processResponseMsg on which a response ended the transfer
\* through reset()
RejectPaths == {"decode", "reserved", "mismatch"}

\* the paths of processResponseMsg for an END or START_AND_END part
EndPaths == {"end", "startAndEnd", "checksum"}

\* C11: a processed END or START_AND_END part leaves an AcknowledgementOnly
\* request with handle 0 as the request state; and once the acknowledgement
\* is outstanding, its answer or its timeout leaves the endpoint Idle
\* (isProcessPolling and isPolling false), so that no further request of the
\* transfer follows.
C11_OneAcknowledgement ==
    [][/\ lastOp'.path \in EndPaths
            => /\ reqData'.operationFlag = PLDM_ACKNOWLEDGEMENT_ONLY
               /\ reqData'.dataTransferHandle = 0
       /\ isPolling /\ reqData.operationFlag = PLDM_ACKNOWLEDGEMENT_ONLY
            /\ lastOp'.op \in {"processResponseMsg", "pollReqTimeoutHdl"}
            /\ running'
            => ~isProcessPolling' /\ ~isPolling']_vars

\* C12: a response that fails to decode, carries event id 0x0000 or 0xFFFF,
\* or an event id other than a non-zero eventIdToAck invokes no handler and
\* leaves the flags false, the request state zero, the receive buffer empty
\* and the poll-request timer disabled; the step after it is not a
\* pollEventReqCb.
C12_ResetOnRejectedResponse ==
    [][/\ lastOp'.path \in RejectPaths
            => /\ ~lastOp'.handler
               /\ ~isProcessPolling' /\ ~isPolling' /\ ~responseReceived'
               /\ reqData' = ReqPollInfo(0, 0, 0)
               /\ recvData' = [eventClass |-> 0, totalSize |-> 0,
                               data |-> <<>>]
               /\ ~pollEventReqTimer'
       /\ lastOp.path \in RejectPaths => lastOp'.op # "pollEventReqCb"]_vars

\* C12 witness: a response with another event id than the one asked for has
\* been processed during a transfer for a critical event
C12_Witness ==
    /\ lastOp.op = "processResponseMsg"
    /\ lastOp.path = "mismatch"
    /\ isCritical
    /\ ~pollEventReqTimer

\* C13: a step of pollReqTimeoutHdl taken while responseReceived is false
\* leaves the receive buffer empty with totalSize 0, the flags false and
\* instanceId released; pollReqTimeoutHdl called while responseReceived is
\* true changes nothing.
C13_TimeoutAbandons ==
    [][/\ lastOp'.op = "pollReqTimeoutHdl" /\ ~responseReceived
            => /\ recvData'.data = <<>> /\ recvData'.totalSize = 0
               /\ ~isProcessPolling' /\ ~isPolling' /\ ~responseReceived'
               /\ instanceId' \notin allocated'
       /\ responseReceived =>
            pollReqTimeoutHdl(Cur) = [Cur EXCEPT !.trace.path = "late"]]_vars

\* C13 witness: the timeout has fired on an outstanding request
C13_Witness ==
    /\ lastOp.op = "pollReqTimeoutHdl"
    /\ lastOp.path = "timeout"
    /\ registered # {}
    /\ recvData.data = <<>>

\* C14: a response delivered right after the poll timeout has fired (so to a
\* request whose timeout has fired) changes no flag, request state, receive
\* buffer or timer, and invokes no handler.
C14_LateResponseDiscarded ==
    [][lastOp.op = "pollReqTimeoutHdl" /\ lastOp.path = "timeout"
         /\ lastOp'.op = "processResponseMsg"
       => /\ UNCHANGED <<isProcessPolling, isPolling, responseReceived,
                         reqData, recvData, pollEventReqTimer,
                         pollReqTimeoutTimer>>
          /\ ~lastOp'.handler]_vars

\* C15: the length of the critical queue never exceeds MAX_QUEUE_SIZE.
C15_QueueBounded == Len(critEventQueue) <= MAX_QUEUE_SIZE

\* C16: enqueueCriticalEvent returns Full exactly when the queue is longer
\* than MAX_QUEUE_SIZE before the call; a rejected enqueue leaves the queue
\* as it is; the queue is never longer than MAX_QUEUE_SIZE + 1.
C16_FullBeyondCapacity ==
    [][/\ lastOp'.op = "enqueueCriticalEvent"
            => /\ lastOp'.path = "full"
                    <=> Len(critEventQueue) > MAX_QUEUE_SIZE
               /\ lastOp'.path \in {"full", "duplicate"}
                    => critEventQueue' = critEventQueue
       /\ Len(critEventQueue') <= MAX_QUEUE_SIZE + 1]_vars

\* C16 witness: an enqueue has been refused on a queue of MAX_QUEUE_SIZE + 1
C16_Witness ==
    /\ lastOp.op = "enqueueCriticalEvent"
    /\ lastOp.path = "full"
    /\ Len(critEventQueue) = MAX_QUEUE_SIZE + 1

\* C17: the critical queue holds no event id twice; enqueueCriticalEvent of
\* an id in a queue of at most MAX_QUEUE_SIZE entries returns Duplicate and
\* leaves the state as it is; on an empty queue, enqueueing an id twice
\* returns Ok, then Duplicate.
C17_NoDuplicates ==
    /\ \A i, j \in 1..Len(critEventQueue) :
          critEventQueue[i] = critEventQueue[j] => i = j
    /\ \A item \in CritEventIds :
          /\ (\E i \in 1..Len(critEventQueue) : critEventQueue[i] = item)
               /\ Len(critEventQueue) <= MAX_QUEUE_SIZE
             => enqueueCriticalEvent(Cur, item)
                  = [Cur EXCEPT !.trace.path = "duplicate"]
          /\ critEventQueue = <<>>
             => LET s1 == enqueueCriticalEvent(Cur, item)
                IN  /\ s1.trace.path = "ok"
                    /\ s1.critEventQueue = <<item>>
                    /\ enqueueCriticalEvent(s1, item).trace.path = "duplicate"
                    /\ enqueueCriticalEvent(s1, item).critEventQueue = <<item>>

\* C17 witness: an enqueue has been refused as a duplicate
C17_Witness ==
    /\ lastOp.op = "enqueueCriticalEvent"
    /\ lastOp.path = "duplicate"
    /\ Len(critEventQueue) = 1

\* C18: an accepted enqueue appends at the tail; criticalEventCb takes the
\* head and makes it the event id of the request state; and the id taken is
\* sent in a request before criticalEventCb takes the next one, so that ids
\* are polled in the order they were enqueued.
C18_FirstInFirstOut ==
    [][/\ lastOp'.op = "enqueueCriticalEvent" /\ lastOp'.path = "ok"
            => /\ Len(critEventQueue') = Len(critEventQueue) + 1
               /\ SubSeq(critEventQueue', 1, Len(critEventQueue))
                    = critEventQueue
       /\ lastOp'.op = "criticalEventCb" /\ lastOp'.path = "arm"
            => /\ critEventQueue' = Tail(critEventQueue)
               /\ reqData'.eventIdToAck = Head(critEventQueue)
       /\ lastOp.op = "criticalEventCb" /\ lastOp.path = "arm"
            => ~(lastOp'.op = "criticalEventCb" /\ lastOp'.path = "arm")]_vars

\* C19: a step of pollEventReqCb on which encoding or sending the request
\* fails leaves isPolling, isProcessPolling, responseReceived, the timeout
\* timer, the request state and the poll-request timer as they are; after a
\* send failure the instance id obtained is not allocated.
C19_FailedSendAborts ==
    [][lastOp'.path \in {"encodeFailed", "sendFailed"}
       => /\ UNCHANGED <<isPolling, isProcessPolling, responseReceived,
                         pollReqTimeoutTimer, reqData, pollEventReqTimer>>
          /\ lastOp'.path = "sendFailed" => instanceId' \notin allocated']_vars

\* C19 witness: sending the request of a transfer in progress has failed; the
\* request state is still the GetNextPart request
C19_Witness ==
    /\ lastOp.op = "pollEventReqCb"
    /\ lastOp.path = "sendFailed"
    /\ reqData.operationFlag = PLDM_GET_NEXTPART
    /\ isProcessPolling
    /\ pollEventReqTimer

\* the first handler of the list that does not return success, or 0
FirstFailure(handlers) ==
    IF \E i \in 1..Len(handlers) : handlers[i] # PLDM_SUCCESS
    THEN CHOOSE i \in 1..Len(handlers) :
            /\ handlers[i] # PLDM_SUCCESS
            /\ \A j \in 1..(i - 1) : handlers[j] = PLDM_SUCCESS
    ELSE 0

\* C20: for a decoded platform event message of a class other than
\* HeartbeatTimerElapsed that has a handler list, the handlers invoked are
\* the first, the second, ... in registered order, up to and including the
\* first that does not return success; if there is one, its code is returned
\* in a completion-code-only response; if there is none, all handlers are
\* invoked and the response carries success.
C20_HandlerChain ==
    \A i \in 1..Len(request) :
      LET req == request[i]
          resp == response[i]
      IN  /\ req.decodeRc = PLDM_SUCCESS
          /\ req.eventClass # PLDM_HEARTBEAT_TIMER_ELAPSED_EVENT
          /\ req.eventClass \in DOMAIN eventHandlers
          => LET handlers == eventHandlers[req.eventClass]
                 k == FirstFailure(handlers)
                 n == IF k = 0 THEN Len(handlers) ELSE k
             IN  /\ invoked = [j \in 1..n |-> j]
                 /\ k # 0 => resp.ccOnly /\ resp.cc = handlers[k]
                 /\ k = 0 => ~resp.ccOnly /\ resp.cc = PLDM_SUCCESS

\* C20 witness: the second of three handlers failed; the third was not
\* called
C20_Witness ==
    /\ request # <<>>
    /\ request[1].decodeRc = PLDM_SUCCESS
    /\ request[1].eventClass = PLDM_SENSOR_EVENT
    /\ PLDM_SENSOR_EVENT \in DOMAIN eventHandlers
    /\ eventHandlers[PLDM_SENSOR_EVENT]
         = <<PLDM_SUCCESS, PLDM_ERROR, PLDM_SUCCESS>>
    /\ invoked = <<1, 2>>
    /\ response[1].ccOnly
    /\ response[1].cc = PLDM_ERROR

\* C21: a decoded platform event message of a class other than
\* HeartbeatTimerElapsed for which no handler list is registered is answered
\* with a completion-code-only response carrying InvalidData, and no handler
\* is invoked.
C21_UnknownClassInvalidData ==
    \A i \in 1..Len(request) :
        /\ request[i].decodeRc = PLDM_SUCCESS
        /\ request[i].eventClass # PLDM_HEARTBEAT_TIMER_ELAPSED_EVENT
        /\ request[i].eventClass \notin DOMAIN eventHandlers
        => /\ response[i].ccOnly
           /\ response[i].cc = PLDM_ERROR_INVALID_DATA
           /\ invoked = <<>>

\* C21 witness: a sensor event has been answered by a responder that has
\* handlers for no class
C21_Witness ==
    /\ request # <<>>
    /\ request[1].decodeRc = PLDM_SUCCESS
    /\ request[1].eventClass = PLDM_SENSOR_EVENT
    /\ DOMAIN eventHandlers = {}
    /\ response[1].cc = PLDM_ERROR_INVALID_DATA

\* whether processResponseMsg takes resp past the checks of the event id
Accepted(resp) ==
    /\ resp.decodeOk
    /\ resp.eventId \notin {EVENT_ID_NULL, EVENT_ID_TERMINATE}
    /\ ~(reqData.eventIdToAck # 0 /\ resp.eventId # reqData.eventIdToAck)

\* C28: every step on which reset() ran leaves the receive buffer empty with
\* totalSize 0; and when the first part of an event (START or START_AND_END)
\* is processed after an END or START_AND_END part has been processed (the
\* request state is the acknowledgement of that event), the buffer is empty
\* and totalSize is 0 before the insert.
C28_BufferClearedBetweenEvents ==
    [][/\ lastOp'.path \in ResetPaths
            => recvData'.data = <<>> /\ recvData'.totalSize = 0
       /\ lastOp'.path \in {"start", "startAndEnd"}
            /\ reqData.operationFlag = PLDM_ACKNOWLEDGEMENT_ONLY
            => recvData.data = <<>> /\ recvData.totalSize = 0]_vars

\* C29: totalSize is the number of bytes in the receive buffer, and a START
\* part that is processed leaves totalSize at the size of that part.
C29_TotalSizeIsBufferLength ==
    /\ recvData.totalSize = Len(recvData.data)
    /\ running /\ registered # {} =>
         \A resp \in Responses(Cur) :
            Accepted(resp) /\ resp.transferFlag = PLDM_START
            => processResponseMsg(Cur, resp, "lost").recvData.totalSize
                 = Len(resp.eventData)

\* C30: a START or MIDDLE part that passes the event id checks invokes no
\* handler and leaves GetNextPart, the next_data_transfer_handle of the
\* response and its event id as the request state; that request state is
\* still the same when the next step is not the sending of the request, so
\* that the next request sent carries it.
C30_NextPartRequested ==
    [][/\ running /\ registered # {} =>
            \A resp \in Responses(Cur) : \A ub \in UBChoices(resp) :
               LET s == processResponseMsg(Cur, resp, ub)
               IN  /\ Accepted(resp) /\ s.running
                   /\ resp.transferFlag \in {PLDM_START, PLDM_MIDDLE}
                   => /\ ~s.trace.handler
                      /\ s.reqData
                           = ReqPollInfo(PLDM_GET_NEXTPART,
                                         resp.nextDataTransferHandle,
                                         resp.eventId)
       /\ lastOp.path \in {"start", "middle"} /\ lastOp'.path # "sent"
            => reqData' = reqData]_vars

\* C22: every response of getPDR, setStateEffecterStates,
\* setNumericEffecterValue, getStateSensorReadings and platformEventMessage
\* whose completion code is not success is a completion-code-only response
\* (header and completion code, no further payload) that carries the
\* instance id of the request.
C22_ErrorsAreCcOnly ==
    /\ \A i \in 1..Len(cmdResponse) :
          cmdResponse[i].cc # PLDM_SUCCESS
          => /\ cmdResponse[i].ccOnly
             /\ cmdResponse[i].instanceId = cmdRequest[i].instanceId
    /\ \A i \in 1..Len(response) :
          response[i].cc # PLDM_SUCCESS
          => /\ response[i].ccOnly
             /\ response[i].instanceId = request[i].instanceId

\* C22 witness: getPDR for a record handle the repository does not hold,
\* answered with InvalidRecordHandle and nothing else, after a platform
\* event message that failed to decode was answered likewise
C22_Witness ==
    /\ cmdRequest # <<>>
    /\ cmdRequest[1] = [command |-> "getPDR", instanceId |-> 1]
    /\ cmdResponse[1]
         = [ccOnly |-> TRUE, cc |-> PLDM_PLATFORM_INVALID_RECORD_HANDLE,
            instanceId |-> 1]
    /\ pdrCreated
    /\ response # <<>>
    /\ response[1].cc = PLDM_ERROR_INVALID_LENGTH
    /\ response[1].ccOnly

\* the terminus handles tlPDRInfo maps to the tid of the event now handled
RefreshedHandles == HandlesOfTid(tlPDRInfo, platformEvent'[1].tid)

\* C23: a step that handles a PdrRepositoryChg event with format
\* RefreshEntireRepository from terminus id tid, with a host PDR handler,
\* leaves no record whose terminus handle tlPDRInfo mapped to tid, leaves
\* every other record in the repository as it was, removes the entries of
\* tlPDRInfo for tid and no other, and calls fetchPDR.
C23_RefreshEntireRepository ==
    [][/\ platformEvent' # <<>>
       /\ platformEvent'[1].handler = "pldmPDRRepositoryChgEvent"
       /\ platformEvent'[1].decodeRc = PLDM_SUCCESS
       /\ platformEvent'[1].eventDataFormat = REFRESH_ENTIRE_REPOSITORY
       /\ hostPDRHandler
       => /\ \A k \in 1..Len(pdrRepo') :
                pdrRepo'[k].terminusHandle \notin RefreshedHandles
          /\ \A k \in 1..Len(pdrRepo) :
                pdrRepo[k].terminusHandle \notin RefreshedHandles
                => \E j \in 1..Len(pdrRepo') : pdrRepo'[j] = pdrRepo[k]
          /\ Len(pdrRepo') <= Len(pdrRepo)
          /\ DOMAIN tlPDRInfo' = DOMAIN tlPDRInfo \ RefreshedHandles
          /\ \A th \in DOMAIN tlPDRInfo' : tlPDRInfo'[th] = tlPDRInfo[th]
          /\ Len(fetchPDR') = 1
          /\ eventRc' = <<PLDM_SUCCESS>>]_vars

\* C23 witness: after the refresh event of tid 1 the records of the terminus
\* handles 1 and 3 are gone, those of 2 and 4 are left, and a fetch is
\* scheduled
C23_Witness ==
    /\ platformEvent # <<>>
    /\ platformEvent[1].handler = "pldmPDRRepositoryChgEvent"
    /\ platformEvent[1].eventDataFormat = REFRESH_ENTIRE_REPOSITORY
    /\ platformEvent[1].decodeRc = PLDM_SUCCESS
    /\ platformEvent[1].tid = 1
    /\ hostPDRHandler
    /\ pdrRepo = <<PdrRecord(2, 2), PdrRecord(4, 4)>>
    /\ DOMAIN tlPDRInfo = {2}
    /\ fetchPDR = <<<<>>>>

\* the entry of the host PDR map the state sensor event of ev is looked up
\* with: <<>> when neither key is found
FoundSensor(ev) ==
    IF <<ev.tid, ev.sensorId>> \in DOMAIN sensorMap
    THEN <<sensorMap[<<ev.tid, ev.sensorId>>]>>
    ELSE IF <<PLDM_TID_RESERVED, ev.sensorId>> \in DOMAIN sensorMap
    THEN <<sensorMap[<<PLDM_TID_RESERVED, ev.sensorId>>]>>
    ELSE <<>>

\* C24: for a decoded StateSensorState sensor event with a host PDR handler:
\* when (tid, sensor id) or (TID_RESERVED, sensor id) is in the host PDR map
\* and the sensor offset is not below the composite sensor count or the
\* event state is not among the possible states at that offset, the result
\* is InvalidData and the state sensor handler is not invoked; when offset
\* and state are valid the handler is invoked exactly once with (container
\* id, entity type, entity instance, sensor offset, event state) and its
\* result is returned; when neither key is in the map the result is success
\* and the handler is not invoked.
C24_StateSensorEvent ==
    \A i \in 1..Len(platformEvent) :
      LET ev == platformEvent[i]
      IN  /\ ev.handler = "sensorEvent"
          /\ ev.decodeRc = PLDM_SUCCESS
          /\ ev.sensorEventClass = PLDM_STATE_SENSOR_STATE
          /\ ev.classDecodeRc = PLDM_SUCCESS
          /\ hostPDRHandler
          => LET found == FoundSensor(ev)
             IN  IF found = <<>>
                 THEN eventRc = <<PLDM_SUCCESS>> /\ stateSensorEvents = <<>>
                 ELSE LET info == found[1]
                          states == info.compositeSensorStates
                      IN  IF \/ ev.sensorOffset >= Len(states)
                             \/ ev.eventState
                                  \notin states[ev.sensorOffset + 1]
                          THEN /\ eventRc = <<PLDM_ERROR_INVALID_DATA>>
                               /\ stateSensorEvents = <<>>
                          ELSE /\ eventRc = <<ev.handlerRc>>
                               /\ stateSensorEvents
                                    = <<[containerId |-> info.entityInfo[1],
                                         entityType |-> info.entityInfo[2],
                                         entityInstance |-> info.entityInfo[3],
                                         sensorOffset |-> ev.sensorOffset,
                                         eventState |-> ev.eventState]>>

\* C24 witness: the event of tid 2 for sensor 1 is found under
\* TID_RESERVED; its state 3 at offset 0 is possible, the handler ran and
\* its failure was returned
C24_Witness ==
    /\ platformEvent # <<>>
    /\ platformEvent[1].handler = "sensorEvent"
    /\ platformEvent[1].tid = 2
    /\ platformEvent[1].sensorId = 1
    /\ hostPDRHandler
    /\ Len(stateSensorEvents) = 1
    /\ stateSensorEvents[1].containerId = 11
    /\ stateSensorEvents[1].eventState = 3
    /\ eventRc = <<PLDM_ERROR>>

\* a call has put something into the registry
Populated ==
    \/ BIOSStrings # <<>>
    \/ DOMAIN BIOSAttrLookup # {}
    \/ \E k \in DOMAIN valueMap : DOMAIN valueMap[k] # {}

\* C25: once a call has populated the BIOS registry, every later setupConfig,
\* whatever its directory, returns success and leaves the string table, the
\* attribute lookup and the value maps of the three kinds as they were.
C25_SetupConfigIdempotent ==
    [][Populated
       => /\ setupRc' = <<0>>
          /\ BIOSStrings' = BIOSStrings
          /\ BIOSAttrLookup' = BIOSAttrLookup
          /\ valueMap' = valueMap]_vars

\* C25 witness: the registry is populated and the last call, for a directory
\* that does not exist, returned success
C25_Witness ==
    /\ Populated
    /\ configDir # <<>>
    /\ ~configDir[1].exists
    /\ setupRc = <<0>>
    /\ BIOSStrings = <<"a", "x", "b">>

\* the elements of a sequence
Range(seq) == {seq[i] : i \in 1..Len(seq)}

\* the attribute names of the entries of the files of dir that parse
ParsedNames(dir) ==
    UNION {{dir.files[k].entries[i].attribute_name :
               i \in 1..Len(dir.files[k].entries)} :
           k \in {f \in DOMAIN dir.files : Parses(dir, f)}}

\* what C26 says of the call for dir: the names of the entries of every file
\* that parsed are in the string table and in the attribute lookup, and -1 is
\* returned exactly when the directory is missing or empty or no attribute
\* was ingested
PerFileIngestion(dir) ==
    /\ dir.exists /\ ~IsEmptyDir(dir)
         => /\ ParsedNames(dir) \subseteq Range(BIOSStrings')
            /\ ParsedNames(dir) \subseteq DOMAIN BIOSAttrLookup'
    /\ setupRc' = <<-1>>
         <=> (~dir.exists \/ IsEmptyDir(dir) \/ ParsedNames(dir) = {})
    /\ setupRc' \in {<<-1>>, <<0>>}

C27_ScanTerminates ==
    /\ [](/\ scan.visited = [i \in 1..Len(scan.visited) |-> i]
          /\ Len(scan.visited) <= Len(scan.repo)
          /\ scan.pc = "done" /\ scan.pdrRecord = 0 /\ scan.repo # <<>>
               => /\ scan.visited = [i \in 1..Len(scan.repo) |-> i]
                  /\ getNextRecord(scan.repo, Len(scan.repo)) = 0)
    /\ (scan.pc = "loop") ~> (scan.pc = "done")

\* C27 witness: a scan for effecter 2 over three effecter PDRs of id 1 has
\* visited all three and returned false
C27_Witness ==
    /\ scan.pc = "done"
    /\ scan.pdrType = PLDM_STATE_EFFECTER_PDR
    /\ scan.id = 2
    /\ Len(scan.repo) = MaxRecords
    /\ scan.visited = <<1, 2, 3>>
    /\ scan.pdrRecord = 0
    /\ scan.result = <<FALSE>>

\* C31: a step of pollEventReqCb taken while every instance id of the EID is
\* allocated sends nothing: no request is registered, no id is obtained, and
\* isPolling, isProcessPolling, responseReceived, the request state, the
\* receive buffer and the timeout timer stay as they are.
C31_NoFreeSlotDropsCycle ==
    [][/\ lastOp'.op = "pollEventReqCb" /\ ~isPolling
            /\ reqData.eventIdToAck # EVENT_ID_TERMINATE
            /\ allocated = InstanceIds
            => lastOp'.path = "noFreeSlot"
       /\ lastOp'.path = "noFreeSlot"
            => UNCHANGED <<isPolling, isProcessPolling, responseReceived,
                           reqData, recvData, registered, allocated,
                           instanceId, pollReqTimeoutTimer>>]_vars

\* C31 witness: a poll-request tick has found every instance id allocated,
\* with a GetFirstPart request waiting to be sent
C31_Witness ==
    /\ lastOp.op = "pollEventReqCb"
    /\ lastOp.path = "noFreeSlot"
    /\ allocated = InstanceIds
    /\ reqData.operationFlag = PLDM_GET_FIRSTPART
    /\ ~isPolling

\* C32: whenever a response to an outstanding request is a MIDDLE, END or
\* START_AND_END part that passes the event id checks, the offset of the
\* insert (reqData.dataTransferHandle) is at most the length of the receive
\* buffer, for transfers started by normalEventCb and by criticalEventCb.
C32_InsertOffsetInRange ==
    running /\ registered # {} =>
      \A resp \in Responses(Cur) :
        /\ resp.decodeOk
        /\ ~ReservedEventId(resp.eventId)
        /\ ~EventIdMismatch(Cur, resp.eventId)
        /\ resp.transferFlag \in {PLDM_MIDDLE, PLDM_END, PLDM_START_AND_END}
        => reqData.dataTransferHandle <= Len(recvData.data)

\* C33: an event id that criticalEventCb has taken from the queue stays the
\* event id of the GetFirstPart request state until a step sends the
\* request: no step other than the sending replaces it, in particular not a
\* second critical tick before the poll-request tick.
C33_PoppedIdKeptUntilSent ==
    [][/\ lastOp.op = "criticalEventCb" /\ lastOp.path = "arm"
       /\ lastOp'.path # "sent"
       => /\ reqData'.operationFlag = PLDM_GET_FIRSTPART
          /\ reqData'.eventIdToAck = reqData.eventIdToAck]_vars

\* C34: every step on which reset() runs starts with a request of the poller
\* outstanding (isPolling) and with instanceId allocated at the requester,
\* so that markFree releases an id the poller holds, once.
C34_ReleasesOnlyHeldId ==
    [][lastOp'.path \in ResetPaths
       => isPolling /\ instanceId \in allocated]_vars

\* C35: reset() leaves the critical queue, isCritical and the registered
\* event handlers as they are, in every state and on every step on which it
\* runs (timeout, decode failure, reserved or mismatching event id); and
\* isCritical goes from true to false only in a step of criticalEventCb that
\* finds the queue empty and no transfer in progress.
C35_ResetKeepsCriticalState ==
    [][/\ reset(Cur).critEventQueue = critEventQueue
       /\ reset(Cur).isCritical = isCritical
       /\ reset(Cur).eventHndls = eventHndls
       /\ lastOp'.path \in ResetPaths
            => UNCHANGED <<critEventQueue, isCritical, eventHndls>>
       /\ isCritical /\ ~isCritical'
            => /\ lastOp'.op = "criticalEventCb"
               /\ critEventQueue = <<>>
               /\ ~isProcessPolling]_vars

\* C35 witness: the timeout of a critical transfer has run reset() with an
\* event id waiting in the queue
C35_Witness ==
    /\ lastOp.op = "pollReqTimeoutHdl"
    /\ lastOp.path = "timeout"
    /\ critEventQueue # <<>>
    /\ isCritical
    /\ reqData = ZeroReq

\* a normal probe has been sent: GetFirstPart with event id 0x0000
NormalProbeSent ==
    /\ lastOp.op = "pollEventReqCb"
    /\ lastOp.path = "sent"
    /\ reqData = ReqPollInfo(PLDM_GET_FIRSTPART, 0, 0)

\* C36: under fair firing of the timers, if from some point on the critical
\* queue stays empty and every transfer ends (isProcessPolling is false
\* again and again), then isCritical becomes false for good and normal
\* probes keep being sent.
C36_NormalPollingResumes ==
    (<>[](critEventQueue = <<>>) /\ []<>(~isProcessPolling))
        => (<>[](~isCritical) /\ []<>NormalProbeSent)

\* the event handed to the class handler is a PdrRepositoryChg event that
\* decodes
ChgEventHandled ==
    /\ platformEvent # <<>>
    /\ platformEvent[1].handler = "pldmPDRRepositoryChgEvent"
    /\ platformEvent[1].decodeRc = PLDM_SUCCESS

\* whether the change-record loop, run on ev, subtracts more than is left of
\* changeRecordDataSize
SizeWraps(ev) ==
    ~ChangeRecordLoop(TRUE, ev.records, 1, ev.size, <<>>, FALSE, "ignored",
                      "abort").running

\* C37: for every PdrRepositoryChg event in FORMAT_IS_PDR_HANDLES that has
\* been handled, the change-record loop never subtracted more than the
\* remaining size (no wrap-around of changeRecordDataSize), and the handler
\* returned.
C37_ChangeRecordSizeNeverWraps ==
    ChgEventHandled
      /\ platformEvent[1].eventDataFormat = FORMAT_IS_PDR_HANDLES
      /\ hostPDRHandler
    => ~SizeWraps(platformEvent[1]) /\ eventRc # <<>>

\* the change records of the event fill the event data exactly
WellFormed(ev) ==
    /\ ev.decodeRc = PLDM_SUCCESS
    /\ ev.eventDataFormat \in {REFRESH_ENTIRE_REPOSITORY,
                               FORMAT_IS_PDR_HANDLES}
    /\ ev.size = RecordBytes(ev.records)

\* C38: without host PDR handler, a well-formed PdrRepositoryChg event, also
\* one with a RecordsModified change record, returns success, removes no
\* PDR and schedules no fetch, and the process goes on.
C38_NoHandlerNoAccess ==
    [][/\ ~hostPDRHandler
       /\ platformEvent' # <<>>
       /\ platformEvent'[1].handler = "pldmPDRRepositoryChgEvent"
       /\ WellFormed(platformEvent'[1])
       => /\ running'
          /\ eventRc' = <<PLDM_SUCCESS>>
          /\ pdrRepo' = pdrRepo
          /\ fetchPDR' = <<>>]_vars

\* C39: after a setupConfig that has ingested a directory, every attribute
\* name of every parsed file is in the attribute lookup and in the value map
\* of the file's kind, so that getAttrValue of an attribute without D-Bus
\* mapping returns its default; also when an entry was rejected by the check
\* of its kind.
C39_LookupHasValues ==
    [][configDir' # <<>> /\ ~Populated /\ setupRc' = <<0>>
       => \A kind \in {"enum", "string", "integer"} :
            Parses(configDir'[1], kind) =>
              \A i \in 1..Len(configDir'[1].files[kind].entries) :
                LET name == configDir'[1].files[kind].entries[i].attribute_name
                IN  /\ name \in DOMAIN BIOSAttrLookup'
                    /\ name \in DOMAIN valueMap'[kind]
                    /\ getAttrValue(BIOSAttrLookup', valueMap', kind, name)
                         # "out_of_range"]_vars

\* the records of the repository that came from origin
RecordsFrom(repo, origin) ==
    {i \in 1..Len(repo) : repo[i].origin = origin}

\* the last command answered was a getPDR rejected with NotReady
NotReadyAnswer(req, resp) ==
    /\ req # <<>> /\ req[1].command = "getPDR"
    /\ resp = <<ccOnlyResponse(req[1], PLDM_ERROR_NOT_READY)>>

=============================================================================
